---- MODULE Spec2Model ----
(***************************************************************************)
(* Model of the FSRS scheduler of the vocabulary game                      *)
(* (src/js/fsrs-engine.js) and of the client that drives it                *)
(* (src/js/adaptive-learning-client.js).                                   *)
(*                                                                         *)
(* Numbers.  JavaScript numbers are modelled in fixed point:               *)
(*   - stability, difficulty, retrievability, uncertainty, priority and    *)
(*     the FSRS weights are in thousandths (SCALE);                        *)
(*   - avgResponseTime is in thousandths of a millisecond, response times  *)
(*     are in milliseconds;                                                *)
(*   - the clock, the timestamps and the intervals are in minutes          *)
(*     (the code's values divided by 60 * 1000).                           *)
(* Math.exp, Math.log and Math.pow are computed by series in               *)
(* ten-thousandths (FINE).                                                 *)
(***************************************************************************)
EXTENDS Integers, Sequences, FiniteSets, TLC

(***************************************************************************)
(* Bounds of the model                                                     *)
(***************************************************************************)
MaxLog == 2            \* responses recorded in one run
MaxSession == 2        \* largest session length requested
MaxReviews == 3        \* responses recorded in one run of ReviewSpec
MaxStability == 50000000 \* largest stability (thousandths) a FAIL may multiply

(***************************************************************************)
(* Fixed-point arithmetic                                                  *)
(***************************************************************************)
SCALE == 1000
FINE == 10000
LN2 == 6931            \* Math.log(2) in units of 1 / FINE

Min(a, b) == IF a < b THEN a ELSE b
Max(a, b) == IF a > b THEN a ELSE b
Abs(a) == IF a < 0 THEN 0 - a ELSE a

\* a * m / SCALE, computed without forming the product a * m
MulFix(a, m) == (a \div SCALE) * m + ((a % SCALE) * m) \div SCALE

\* a value in units of 1 / FINE rounded to units of 1 / SCALE
ToScale(x) == (x + 5) \div 10

RECURSIVE Halvings(_)
Halvings(x) == IF x >= 2 * SCALE THEN 1 + Halvings(x \div 2) ELSE 0

RECURSIVE Halve(_)
Halve(x) == IF x >= 2 * SCALE THEN Halve(x \div 2) ELSE x

RECURSIVE Doublings(_)
Doublings(x) == IF x < SCALE THEN 1 + Doublings(2 * x) ELSE 0

RECURSIVE Double(_)
Double(x) == IF x < SCALE THEN Double(2 * x) ELSE x

RECURSIVE Pow2(_)
Pow2(n) == IF n = 0 THEN 1 ELSE 2 * Pow2(n - 1)

\* Math.log of a mantissa m in [1, 2), m in units of 1 / FINE:
\* 2 * atanh((m - 1) / (m + 1))
LnMantissa(m) ==
    LET z  == ((m - FINE) * FINE) \div (m + FINE)
        z2 == (z * z) \div FINE
        z3 == (z2 * z) \div FINE
        z5 == (z3 * z2) \div FINE
        z7 == (z5 * z2) \div FINE
    IN  2 * z + (2 * z3) \div 3 + (2 * z5) \div 5 + (2 * z7) \div 7

\* Math.log(x), x > 0 in units of 1 / SCALE, result in units of 1 / FINE
MathLog(x) ==
    IF x >= SCALE
    THEN Halvings(x) * LN2 + LnMantissa(10 * Halve(x))
    ELSE LnMantissa(10 * Double(x)) - Doublings(x) * LN2

\* e^r for 0 <= r < ln 2, both in units of 1 / FINE
ExpSeries(r) ==
    LET r2 == (r * r) \div FINE
        r3 == (r2 * r) \div FINE
        r4 == (r3 * r) \div FINE
        r5 == (r4 * r) \div FINE
    IN  FINE + r + r2 \div 2 + r3 \div 6 + r4 \div 24 + r5 \div 120

\* Math.exp(x), argument and result in units of 1 / FINE
MathExp(x) ==
    IF x >= 0
    THEN ExpSeries(x % LN2) * Pow2(x \div LN2)
    ELSE IF 0 - x >= 14 * LN2 THEN 0
         ELSE (FINE * FINE) \div (ExpSeries((0 - x) % LN2) * Pow2((0 - x) \div LN2))

\* Math.pow(x, e), x > 0 and e in units of 1 / SCALE, result in units of 1 / FINE
MathPow(x, e) == MathExp((MathLog(x) * e) \div SCALE)


(***************************************************************************)
(* Program constants                                                       *)
(***************************************************************************)
FAIL == 0
HARD == 1
GOOD == 2
EASY == 3

WordState_NEW == "new"
WordState_LEARNING == "learning"
WordState_REVIEW == "review"

W0 == 400              \* fsrsParams.w[0] = 0.4
W1 == 600              \* fsrsParams.w[1] = 0.6
W6 == 860              \* fsrsParams.w[6] = 0.86
W8 == 1490             \* fsrsParams.w[8] = 1.49
W9 == 140              \* fsrsParams.w[9] = 0.14
W10 == 940             \* fsrsParams.w[10] = 0.94
retentionRate == 850   \* 0.85
maxInterval == 36500   \* days
learningSteps == <<1, 10>>   \* minutes
easyInterval == 4
uncertaintyWeight == 200     \* uncertaintyWeight = 0.2
MinutesPerDay == 24 * 60

(***************************************************************************)
(* Inputs                                                                  *)
(***************************************************************************)
\* two entries of the default vocabulary, by concept
defaultData == <<"Gravity", "Metaphor">>
Words == {defaultData[i] : i \in 1 .. Len(defaultData)}
ResponseTimes == {800, 4000}             \* milliseconds
SessionLengths == (0 - MaxSession) .. MaxSession
\* Date.now() takes these values, in minutes; it never returns 0
Times == {1, 1 + MinutesPerDay}

(***************************************************************************)
(* Item State Store                                                        *)
(***************************************************************************)
\* mutant: a new word is scheduled one learning step ahead
createNewWordState_DueLater(wordId, t) ==
    [wordId |-> wordId, state |-> WordState_NEW, stability |-> 0, difficulty |-> 300,
     retrievability |-> 1000, repsTotal |-> 0, repsCorrect |-> 0, streakCorrect |-> 0,
     lapseCount |-> 0, lastResponseQuality |-> GOOD, avgResponseTime |-> 0,
     lastResponseTime |-> 0, hintUsedCount |-> 0, createdTime |-> t,
     lastReviewTime |-> 0, nextDueTime |-> t + learningSteps[1], interval |-> 0,
     uncertainty |-> 1000, priority |-> 0, lastUpdated |-> t]

createNewWordState(wordId, t) ==
    [wordId |-> wordId,
     state |-> WordState_NEW,
     stability |-> 0,
     difficulty |-> 300,
     retrievability |-> 1000,
     repsTotal |-> 0,
     repsCorrect |-> 0,
     streakCorrect |-> 0,
     lapseCount |-> 0,
     lastResponseQuality |-> GOOD,
     avgResponseTime |-> 0,
     lastResponseTime |-> 0,
     hintUsedCount |-> 0,
     createdTime |-> t,
     lastReviewTime |-> 0,
     nextDueTime |-> t,
     interval |-> 0,
     uncertainty |-> 1000,
     priority |-> 0,
     lastUpdated |-> t]

\* the 'fsrs_word_states' map after getWordState(wordId) ran at time t
storeAfterGet(store, wordId, t) ==
    IF wordId \in DOMAIN store
    THEN store
    ELSE store @@ (wordId :> createNewWordState(wordId, t))

getWordState(store, wordId, t) == storeAfterGet(store, wordId, t)[wordId]

\* mutant: the stored object is replaced by one holding only this word
saveWordState_Overwrite(store, wordState) ==
    [id \in {wordState.wordId} |-> wordState]

\* mutant: the updated state is not written back
saveWordState_Skip(store, wordState) == store

saveWordState(store, wordState) ==
    [id \in DOMAIN store \cup {wordState.wordId} |->
        IF id = wordState.wordId THEN wordState ELSE store[id]]

(***************************************************************************)
(* Response Classifier                                                     *)
(***************************************************************************)
\* mutant: the time ratio is taken the wrong way round (average / response time)
determineResponseQuality_RatioInverted(isCorrect, responseTimeMs, usedHint, wordState) ==
    IF ~isCorrect THEN FAIL
    ELSE LET fast == wordState.avgResponseTime > 0
                     /\ 2 * wordState.avgResponseTime < responseTimeMs * SCALE
             slow == wordState.avgResponseTime > 0
                     /\ wordState.avgResponseTime > 2 * responseTimeMs * SCALE
             quality == IF fast THEN EASY ELSE IF slow THEN HARD ELSE GOOD
         IN  IF usedHint THEN Max(FAIL, quality - 1) ELSE quality

\* mutant: the thresholds are inclusive (timeRatio <= 0.5, timeRatio >= 2.0)
determineResponseQuality_Inclusive(isCorrect, responseTimeMs, usedHint, wordState) ==
    IF ~isCorrect THEN FAIL
    ELSE LET fast == wordState.avgResponseTime > 0
                     /\ 2 * responseTimeMs * SCALE <= wordState.avgResponseTime
             slow == wordState.avgResponseTime > 0
                     /\ responseTimeMs * SCALE >= 2 * wordState.avgResponseTime
             quality == IF fast THEN EASY ELSE IF slow THEN HARD ELSE GOOD
         IN  IF usedHint THEN Max(FAIL, quality - 1) ELSE quality

determineResponseQuality(isCorrect, responseTimeMs, usedHint, wordState) ==
    IF ~isCorrect THEN FAIL
    ELSE LET \* timeRatio < 0.5 and timeRatio > 2.0, cross-multiplied
             fast == wordState.avgResponseTime > 0
                     /\ 2 * responseTimeMs * SCALE < wordState.avgResponseTime
             slow == wordState.avgResponseTime > 0
                     /\ responseTimeMs * SCALE > 2 * wordState.avgResponseTime
             quality == IF fast THEN EASY ELSE IF slow THEN HARD ELSE GOOD
         IN  IF usedHint THEN Max(FAIL, quality - 1) ELSE quality

(***************************************************************************)
(* Model Updater                                                           *)
(***************************************************************************)
\* mutant: the value clamped to [1, 10] is stored without normalisation
updateDifficulty_NotNormalised(wordState, responseQuality) ==
    LET difficultyAdjustment == W6 * (responseQuality - 3)
    IN  [wordState EXCEPT !.difficulty =
            Max(1 * SCALE, Min(10 * SCALE, @ + difficultyAdjustment))]

updateDifficulty(wordState, responseQuality) ==
    LET difficultyAdjustment == W6 * (responseQuality - 3)
        clamped == Max(1 * SCALE,
                       Min(10 * SCALE, wordState.difficulty + difficultyAdjustment))
    IN  [wordState EXCEPT !.difficulty = (clamped - 1 * SCALE) \div 9]

\* mutant: a failed first response graduates the word too
handleNewWord_Graduates(wordState, responseQuality) ==
    [wordState EXCEPT !.stability = W0 + W1 * Max(0, responseQuality - 1),
                      !.state = WordState_LEARNING]

handleNewWord(wordState, responseQuality) ==
    IF responseQuality = FAIL
    THEN [wordState EXCEPT !.stability = W0, !.state = WordState_NEW]
    ELSE [wordState EXCEPT !.stability = W0 + W1 * (responseQuality - 1),
                           !.state = WordState_LEARNING]

calculateStabilityMultiplier(responseQuality, difficulty, stability) ==
    LET expW8   == ToScale(MathExp(10 * W8))
        powS    == ToScale(MathPow(stability, 0 - W9))
        expQ    == ToScale(MathExp(10 * W10 * (1 - responseQuality))) - SCALE
        factor1 == (((((expW8 * (11 * SCALE - difficulty)) \div SCALE)
                        * powS) \div SCALE) * expQ) \div SCALE
    IN  Max(100, SCALE + factor1)

\* mutant: the minimum stability is not enforced
handleKnownWord_NoFloor(wordState, responseQuality) ==
    LET stabilityMultiplier ==
            calculateStabilityMultiplier(responseQuality, wordState.difficulty,
                                         wordState.stability)
        stability == MulFix(wordState.stability, stabilityMultiplier)
    IN  [wordState EXCEPT
            !.stability = stability,
            !.state = IF responseQuality = FAIL THEN WordState_LEARNING
                      ELSE IF stability > 1 * SCALE THEN WordState_REVIEW
                      ELSE wordState.state]

\* mutant: a failed response does not send the word back to learning
handleKnownWord_FailKeepsState(wordState, responseQuality) ==
    LET stabilityMultiplier ==
            calculateStabilityMultiplier(responseQuality, wordState.difficulty,
                                         wordState.stability)
        stability == Max(100, MulFix(wordState.stability, stabilityMultiplier))
    IN  [wordState EXCEPT
            !.stability = stability,
            !.state = IF stability > 1 * SCALE THEN WordState_REVIEW
                      ELSE wordState.state]

\* mutant: a failed response sends the word back to new
handleKnownWord_FailToNew(wordState, responseQuality) ==
    LET stabilityMultiplier ==
            calculateStabilityMultiplier(responseQuality, wordState.difficulty,
                                         wordState.stability)
        stability == Max(100, MulFix(wordState.stability, stabilityMultiplier))
    IN  [wordState EXCEPT
            !.stability = stability,
            !.state = IF responseQuality = FAIL THEN WordState_NEW
                      ELSE IF stability > 1 * SCALE THEN WordState_REVIEW
                      ELSE wordState.state]

handleKnownWord(wordState, responseQuality) ==
    LET stabilityMultiplier ==
            calculateStabilityMultiplier(responseQuality, wordState.difficulty,
                                         wordState.stability)
        stability == Max(100, MulFix(wordState.stability, stabilityMultiplier))
    IN  [wordState EXCEPT
            !.stability = stability,
            !.state = IF responseQuality = FAIL THEN WordState_LEARNING
                      ELSE IF stability > 1 * SCALE THEN WordState_REVIEW
                      ELSE wordState.state]

calculateRetrievability(wordState, currentTime) ==
    IF wordState.lastReviewTime = 0 \/ wordState.stability = 0
    THEN 1000
    ELSE LET daysSinceReview ==
                 ((currentTime - wordState.lastReviewTime) * SCALE) \div MinutesPerDay
         IN  ToScale(MathExp(0 - (10 * ((daysSinceReview * SCALE)
                                            \div wordState.stability))))

\* mutant: the next due time is counted from the time the word was last due
scheduleNextReview_FromDue(wordState, responseQuality, currentTime) ==
    LET stepIndex == Min(wordState.repsCorrect, Len(learningSteps) - 1)
        logRatio == ((0 - MathLog(retentionRate)) * SCALE) \div (0 - MathLog(900))
        reviewInterval == MulFix(MulFix(wordState.stability, logRatio),
                                 MinutesPerDay)
        interval ==
            IF wordState.state = WordState_NEW \/ wordState.state = WordState_LEARNING
            THEN learningSteps[stepIndex + 1]
            ELSE IF responseQuality = EASY THEN reviewInterval * easyInterval
            ELSE IF responseQuality = HARD THEN reviewInterval \div 2
            ELSE IF responseQuality = FAIL THEN learningSteps[1]
            ELSE reviewInterval
        capped == Min(interval, maxInterval * MinutesPerDay)
    IN  [wordState EXCEPT !.interval = capped,
                          !.nextDueTime = @ + capped]

\* mutant: the interval is stored without the cap
scheduleNextReview_NoCap(wordState, responseQuality, currentTime) ==
    LET stepIndex == Min(wordState.repsCorrect, Len(learningSteps) - 1)
        logRatio == ((0 - MathLog(retentionRate)) * SCALE) \div (0 - MathLog(900))
        reviewInterval == MulFix(MulFix(wordState.stability, logRatio),
                                 MinutesPerDay)
        interval ==
            IF wordState.state = WordState_NEW \/ wordState.state = WordState_LEARNING
            THEN learningSteps[stepIndex + 1]
            ELSE IF responseQuality = EASY THEN reviewInterval * easyInterval
            ELSE IF responseQuality = HARD THEN reviewInterval \div 2
            ELSE IF responseQuality = FAIL THEN learningSteps[1]
            ELSE reviewInterval
    IN  [wordState EXCEPT !.interval = interval,
                          !.nextDueTime = currentTime + interval]

scheduleNextReview(wordState, responseQuality, currentTime) ==
    LET stepIndex == Min(wordState.repsCorrect, Len(learningSteps) - 1)
        \* Math.log(desiredRetention) / Math.log(0.9)
        logRatio == ((0 - MathLog(retentionRate)) * SCALE) \div (0 - MathLog(900))
        \* stability * logRatio days, in minutes
        reviewInterval == MulFix(MulFix(wordState.stability, logRatio),
                                 MinutesPerDay)
        interval ==
            IF wordState.state = WordState_NEW \/ wordState.state = WordState_LEARNING
            THEN learningSteps[stepIndex + 1]
            ELSE IF responseQuality = EASY THEN reviewInterval * easyInterval
            ELSE IF responseQuality = HARD THEN reviewInterval \div 2
            ELSE IF responseQuality = FAIL THEN learningSteps[1]
            ELSE reviewInterval
        capped == Min(interval, maxInterval * MinutesPerDay)
    IN  [wordState EXCEPT !.interval = capped,
                          !.nextDueTime = currentTime + capped]

applyFSRSUpdate(wordState, responseQuality, currentTime) ==
    LET d == updateDifficulty(wordState, responseQuality)
        s == IF d.state = WordState_NEW
             THEN handleNewWord(d, responseQuality)
             ELSE handleKnownWord(d, responseQuality)
        r == [s EXCEPT !.retrievability = calculateRetrievability(s, currentTime)]
    IN  scheduleNextReview(r, responseQuality, currentTime)

(***************************************************************************)
(* Priority Scorer                                                         *)
(***************************************************************************)
\* mutant: the overdue and lapse terms are not capped
updateWordPriority_NoCaps(wordState, currentTime) ==
    LET overdueDays == ((currentTime - wordState.nextDueTime) * SCALE) \div MinutesPerDay
        due == IF currentTime >= wordState.nextDueTime
               THEN 10 * SCALE + overdueDays * 2
               ELSE 0
        retr == MulFix(1 * SCALE - wordState.retrievability, 5 * SCALE)
        diff == wordState.difficulty * 2
        lapse == wordState.lapseCount * 1500
        bonus == IF wordState.state = WordState_NEW THEN 3 * SCALE ELSE 0
        unc == MulFix(wordState.uncertainty, uncertaintyWeight)
    IN  [wordState EXCEPT !.priority = due + retr + diff + lapse + bonus + unc]

updateWordPriority(wordState, currentTime) ==
    LET overdueDays == ((currentTime - wordState.nextDueTime) * SCALE) \div MinutesPerDay
        due == IF currentTime >= wordState.nextDueTime
               THEN 10 * SCALE + Min(overdueDays * 2, 20 * SCALE)
               ELSE 0
        retr == MulFix(1 * SCALE - wordState.retrievability, 5 * SCALE)
        diff == wordState.difficulty * 2
        lapse == IF wordState.lapseCount > 0
                 THEN Min(wordState.lapseCount * 1500, 5 * SCALE)
                 ELSE 0
        bonus == IF wordState.state = WordState_NEW THEN 3 * SCALE ELSE 0
        unc == MulFix(wordState.uncertainty, uncertaintyWeight)
    IN  [wordState EXCEPT !.priority = due + retr + diff + lapse + bonus + unc]

updateUncertainty(wordState) ==
    LET \* Math.exp(-repsTotal * 0.1)
        baseUncertainty == ToScale(MathExp(0 - wordState.repsTotal * (FINE \div 10)))
        accuracy == IF wordState.repsTotal > 0
                    THEN (wordState.repsCorrect * SCALE) \div wordState.repsTotal
                    ELSE 0
        consistencyFactor == Abs(accuracy - 500) * 2
    IN  [wordState EXCEPT !.uncertainty =
            Max(100, baseUncertainty + MulFix(1 * SCALE - consistencyFactor, 300))]

(***************************************************************************)
(* Audit Logger / Exporter                                                 *)
(* An entry's stateAfter and changes are sequences of zero or one record:  *)
(* empty until logStateUpdate attaches them.                               *)
(***************************************************************************)
stateBeforeOf(wordState) ==
    [state |-> wordState.state,
     stability |-> wordState.stability,
     difficulty |-> wordState.difficulty,
     retrievability |-> wordState.retrievability,
     repsTotal |-> wordState.repsTotal,
     repsCorrect |-> wordState.repsCorrect,
     streakCorrect |-> wordState.streakCorrect]

stateAfterOf(wordState) ==
    [state |-> wordState.state,
     stability |-> wordState.stability,
     difficulty |-> wordState.difficulty,
     retrievability |-> wordState.retrievability,
     repsTotal |-> wordState.repsTotal,
     repsCorrect |-> wordState.repsCorrect,
     streakCorrect |-> wordState.streakCorrect,
     nextDueTime |-> wordState.nextDueTime,
     priority |-> wordState.priority]

\* mutant: an entry for the same word at the tail is replaced, not followed
logReview_ReplacesTail(log, wordId, wordState, responseQuality, responseTime, usedHint, t) ==
    LET entry == [timestamp |-> t,
                  wordId |-> wordId,
                  responseQuality |-> responseQuality,
                  responseTime |-> responseTime,
                  usedHint |-> usedHint,
                  stateBefore |-> stateBeforeOf(wordState),
                  stateAfter |-> <<>>,
                  changes |-> <<>>]
    IN  IF Len(log) > 0 /\ log[Len(log)].wordId = wordId
        THEN [log EXCEPT ![Len(log)] = entry]
        ELSE Append(log, entry)

logReview(log, wordId, wordState, responseQuality, responseTime, usedHint, t) ==
    Append(log, [timestamp |-> t,
                 wordId |-> wordId,
                 responseQuality |-> responseQuality,
                 responseTime |-> responseTime,
                 usedHint |-> usedHint,
                 stateBefore |-> stateBeforeOf(wordState),
                 stateAfter |-> <<>>,
                 changes |-> <<>>])

\* mutant: the entry to complete is looked for at the head of the log
tailMatches_Head(log, wordState) ==
    Len(log) > 0 /\ log[1].wordId = wordState.wordId

\* does logStateUpdate find the entry to complete at the tail of the log?
tailMatches(log, wordState) ==
    Len(log) > 0 /\ log[Len(log)].wordId = wordState.wordId

logStateUpdate(log, wordState) ==
    IF tailMatches(log, wordState)
    THEN LET lastLog == log[Len(log)]
             after == stateAfterOf(wordState)
         IN  [log EXCEPT ![Len(log)] =
                [lastLog EXCEPT
                    !.stateAfter = <<after>>,
                    !.changes = <<[stabilityChange |->
                                       after.stability - lastLog.stateBefore.stability,
                                   difficultyChange |->
                                       after.difficulty - lastLog.stateBefore.difficulty,
                                   retrievabilityChange |->
                                       after.retrievability
                                           - lastLog.stateBefore.retrievability]>>]]
    ELSE log

\* Number.prototype.toFixed(4): a value in thousandths printed in ten-thousandths
toFixed4(x) == 10 * x

csvHeaders ==
    <<"Timestamp", "WordId", "ResponseQuality", "ResponseTime", "UsedHint",
      "StateBefore", "StabilityBefore", "DifficultyBefore", "RetrievabilityBefore",
      "StateAfter", "StabilityAfter", "DifficultyAfter", "RetrievabilityAfter",
      "StabilityChange", "DifficultyChange", "RetrievabilityChange",
      "RepsTotal", "RepsCorrect", "StreakCorrect", "NextDueTime", "Priority">>

csvRow(entry) ==
    LET before == entry.stateBefore
        after == entry.stateAfter[1]
        changes == entry.changes[1]
    IN  <<entry.timestamp, entry.wordId, entry.responseQuality, entry.responseTime,
          entry.usedHint,
          before.state, toFixed4(before.stability), toFixed4(before.difficulty),
          toFixed4(before.retrievability),
          after.state, toFixed4(after.stability), toFixed4(after.difficulty),
          toFixed4(after.retrievability),
          toFixed4(changes.stabilityChange), toFixed4(changes.difficultyChange),
          toFixed4(changes.retrievabilityChange),
          after.repsTotal, after.repsCorrect, after.streakCorrect,
          after.nextDueTime, toFixed4(after.priority)>>

RECURSIVE csvRows(_, _)
csvRows(log, i) ==
    IF i > Len(log) THEN <<>>
    ELSE IF log[i].stateAfter # <<>>
         THEN <<csvRow(log[i])>> \o csvRows(log, i + 1)
         ELSE csvRows(log, i + 1)

\* the lines of the exported text
exportCSV(log) ==
    IF Len(log) = 0
    THEN << <<"No data to export">> >>
    ELSE <<csvHeaders>> \o csvRows(log, 1)

\* the lines of an export that follow the header line
csvDataRowCount(csv) ==
    IF csv[1] = csvHeaders THEN Len(csv) - 1 ELSE 0

(***************************************************************************)
(* updateWordState: the new word-state map, the logger's in-memory log and *)
(* the persisted log, and the value returned                               *)
(***************************************************************************)
\* mutant: an incorrect response is not counted as a lapse
updateWordState_NoLapse(store, log, wordId, isCorrect, responseTimeMs, usedHint, currentTime) ==
    LET store1 == storeAfterGet(store, wordId, currentTime)
        wordState == store1[wordId]
        responseQuality ==
            determineResponseQuality(isCorrect, responseTimeMs, usedHint, wordState)
        log1 == logReview(log, wordId, wordState, responseQuality, responseTimeMs,
                          usedHint, currentTime)
        counted == [wordState EXCEPT
            !.repsTotal = @ + 1,
            !.lastResponseTime = responseTimeMs,
            !.lastReviewTime = currentTime,
            !.lastUpdated = currentTime,
            !.avgResponseTime =
                IF @ = 0 THEN responseTimeMs * SCALE
                ELSE (9 * @) \div 10 + (responseTimeMs * SCALE) \div 10,
            !.hintUsedCount = IF usedHint THEN @ + 1 ELSE @,
            !.repsCorrect = IF isCorrect THEN @ + 1 ELSE @,
            !.streakCorrect = IF isCorrect THEN @ + 1 ELSE 0]
        updated == applyFSRSUpdate(counted, responseQuality, currentTime)
        final == updateUncertainty(updateWordPriority(updated, currentTime))
        log2 == logStateUpdate(log1, final)
    IN  [wordStates |-> saveWordState(store1, final),
         logs |-> log2,
         storedLogs |-> IF tailMatches(log1, final) THEN log2 ELSE log1,
         responseQuality |-> responseQuality,
         stateBefore |-> wordState,
         wordState |-> final]

updateWordState(store, log, wordId, isCorrect, responseTimeMs, usedHint, currentTime) ==
    LET store1 == storeAfterGet(store, wordId, currentTime)
        wordState == store1[wordId]
        responseQuality ==
            determineResponseQuality(isCorrect, responseTimeMs, usedHint, wordState)
        log1 == logReview(log, wordId, wordState, responseQuality, responseTimeMs,
                          usedHint, currentTime)
        counted == [wordState EXCEPT
            !.repsTotal = @ + 1,
            !.lastResponseTime = responseTimeMs,
            !.lastReviewTime = currentTime,
            !.lastUpdated = currentTime,
            !.avgResponseTime =
                IF @ = 0 THEN responseTimeMs * SCALE
                ELSE (9 * @) \div 10 + (responseTimeMs * SCALE) \div 10,
            !.hintUsedCount = IF usedHint THEN @ + 1 ELSE @,
            !.repsCorrect = IF isCorrect THEN @ + 1 ELSE @,
            !.streakCorrect = IF isCorrect THEN @ + 1 ELSE 0,
            !.lapseCount = IF isCorrect THEN @ ELSE @ + 1]
        updated == applyFSRSUpdate(counted, responseQuality, currentTime)
        final == updateUncertainty(updateWordPriority(updated, currentTime))
        log2 == logStateUpdate(log1, final)
    IN  [wordStates |-> saveWordState(store1, final),
         logs |-> log2,
         storedLogs |-> IF tailMatches(log1, final) THEN log2 ELSE log1,
         responseQuality |-> responseQuality,
         stateBefore |-> wordState,
         wordState |-> final]

(***************************************************************************)
(* Session Selector                                                        *)
(* A vocabulary is the sequence of the concepts of its entries.  A draw is *)
(* the outcome of the Math.random() calls of one iteration: explore is     *)
(* "Math.random() < explorationRate", bucket picks the value of            *)
(* "Math.random() * totalWeight".                                          *)
(***************************************************************************)
RECURSIVE SeqSum(_, _)
SeqSum(weights, n) == IF n = 0 THEN 0 ELSE weights[n] + SeqSum(weights, n - 1)

\* a value Math.random() * totalWeight can take: just inside the bucket-th weight
randomValueOf(weights, bucket) ==
    SeqSum(weights, Min(bucket, Len(weights) - 1)) + 1

\* the loop "randomValue -= weights[j]; if (randomValue <= 0) ...", 0-based result
RECURSIVE weightedIndex(_, _, _)
weightedIndex(weights, randomValue, j) ==
    IF j >= Len(weights) THEN 0
    ELSE IF randomValue - weights[j + 1] <= 0 THEN j
    ELSE weightedIndex(weights, randomValue - weights[j + 1], j + 1)

\* mutant: the selection saves the priority it recomputes
RECURSIVE storeAfterGetAll_SavesPriority(_, _, _)
storeAfterGetAll_SavesPriority(store, vocabularyData, t) ==
    IF vocabularyData = <<>> THEN store
    ELSE LET store1 == storeAfterGet(store, Head(vocabularyData), t)
             wordState == updateWordPriority(store1[Head(vocabularyData)], t)
         IN  storeAfterGetAll_SavesPriority(
                 [store1 EXCEPT ![Head(vocabularyData)] = wordState],
                 Tail(vocabularyData), t)

RECURSIVE storeAfterGetAll(_, _, _)
storeAfterGetAll(store, vocabularyData, t) ==
    IF vocabularyData = <<>> THEN store
    ELSE storeAfterGetAll(storeAfterGet(store, Head(vocabularyData), t),
                          Tail(vocabularyData), t)

\* the wordPriorities array before it is sorted
priorityList(store, vocabularyData, t) ==
    [i \in 1 .. Len(vocabularyData) |->
        LET wordState == updateWordPriority(store[vocabularyData[i]], t)
        IN  [concept |-> vocabularyData[i],
             wordState |-> wordState,
             priority |-> wordState.priority]]

\* x placed behind every element whose priority is at least its own
RECURSIVE insertByPriority(_, _)
insertByPriority(sorted, x) ==
    IF sorted = <<>> THEN <<x>>
    ELSE IF Head(sorted).priority >= x.priority
         THEN <<Head(sorted)>> \o insertByPriority(Tail(sorted), x)
         ELSE <<x>> \o sorted

\* Array.prototype.sort((a, b) => b.priority - a.priority), a stable sort
RECURSIVE sortByPriority(_)
sortByPriority(list) ==
    IF list = <<>> THEN <<>>
    ELSE insertByPriority(sortByPriority(SubSeq(list, 1, Len(list) - 1)),
                          list[Len(list)])

\* mutant: the explored word is not spliced out
removeAt_Keep(list, k) == list

removeAt(list, k) == SubSeq(list, 1, k - 1) \o SubSeq(list, k + 1, Len(list))

selectedEntry(item) ==
    [concept |-> item.concept,
     priority |-> item.priority,
     state |-> item.wordState.state,
     difficulty |-> item.wordState.difficulty]

\* iterations i .. targetCount - 1 of the selection loop
RECURSIVE selectLoop(_, _, _, _, _)
selectLoop(i, targetCount, wordPriorities, selectedWords, draws) ==
    IF i >= targetCount THEN selectedWords
    ELSE IF draws[i + 1].explore /\ i < Len(wordPriorities)
    THEN LET remainingWords == SubSeq(wordPriorities, i + 1, Len(wordPriorities))
             uncertaintyWeights ==
                 [j \in 1 .. Len(remainingWords) |->
                     remainingWords[j].wordState.uncertainty]
             totalWeight == SeqSum(uncertaintyWeights, Len(uncertaintyWeights))
         IN  IF totalWeight > 0
             THEN LET selectedIndex ==
                          weightedIndex(uncertaintyWeights,
                                        randomValueOf(uncertaintyWeights,
                                                      draws[i + 1].bucket), 0)
                      originalIndex == i + selectedIndex + 1
                  IN  selectLoop(i + 1, targetCount,
                                 removeAt(wordPriorities, originalIndex),
                                 Append(selectedWords,
                                        selectedEntry(remainingWords[selectedIndex + 1])),
                                 draws)
             ELSE selectLoop(i + 1, targetCount, wordPriorities,
                             Append(selectedWords, selectedEntry(wordPriorities[i + 1])),
                             draws)
    ELSE IF i < Len(wordPriorities)
    THEN selectLoop(i + 1, targetCount, wordPriorities,
                    Append(selectedWords, selectedEntry(wordPriorities[i + 1])), draws)
    ELSE selectLoop(i + 1, targetCount, wordPriorities, selectedWords, draws)

\* mutant: the sign of the session length is dropped
targetCountOf_Abs(vocabularyData, sessionLength) ==
    Min(Abs(sessionLength), Len(vocabularyData))

\* Math.min(sessionLength, wordPriorities.length)
targetCountOf(vocabularyData, sessionLength) == Min(sessionLength, Len(vocabularyData))

selectWordsForSession(store, vocabularyData, sessionLength, draws, t) ==
    LET store1 == storeAfterGetAll(store, vocabularyData, t)
        wordPriorities == sortByPriority(priorityList(store1, vocabularyData, t))
    IN  [wordStates |-> store1,
         selectedWords |->
             selectLoop(0, targetCountOf(vocabularyData, sessionLength),
                        wordPriorities, <<>>, draws)]

(***************************************************************************)
(* Reset                                                                   *)
(***************************************************************************)
EmptyStore == [id \in {} |-> id]

\* FSRSDataLogger.clearLogs: the in-memory log and the persisted log
clearLogs(log, stored) == [logs |-> <<>>, storedLogs |-> <<>>]

\* mutant: the word-state key is not removed
resetData_KeepStates(store, log, stored) ==
    [wordStates |-> store,
     logs |-> clearLogs(log, stored).logs,
     storedLogs |-> clearLogs(log, stored).storedLogs]

\* FSRSEngine.resetData: both keys removed, the logger cleared, the keys
\* re-created empty by initializeStorage
resetData(store, log, stored) ==
    [wordStates |-> EmptyStore,
     logs |-> clearLogs(log, stored).logs,
     storedLogs |-> clearLogs(log, stored).storedLogs]

(***************************************************************************)
(* Storage failures.  localStorage.getItem / JSON.parse and                *)
(* localStorage.setItem can throw; neither the engine nor the client has a *)
(* try / catch, so a call ends at the first access that throws.  An access *)
(* is a record [key, op]; a call that fails is described by the accesses   *)
(* it attempted and by whether the exception left the call.                *)
(***************************************************************************)
readStates == [key |-> "fsrs_word_states", op |-> "getItem"]
writeStates == [key |-> "fsrs_word_states", op |-> "setItem"]
writeLogs == [key |-> "fsrs_learning_logs", op |-> "setItem"]
readVocabulary == [key |-> "vocabularyData", op |-> "getItem"]

\* the storage accesses of getWordState(wordId), in order
accessesOfGet(store, wordId) ==
    IF wordId \in DOMAIN store THEN <<readStates>> ELSE <<readStates, writeStates>>

\* the storage accesses of updateWordState(wordId, ...), in order: getWordState,
\* logReview, saveWordState, logStateUpdate
accessesOfUpdate(store, wordId) ==
    accessesOfGet(store, wordId) \o <<writeLogs, readStates, writeStates, writeLogs>>

\* the storage accesses of startSession: getStoredVocabulary, then getWordState
\* for each entry
RECURSIVE accessesOfSelect(_, _, _)
accessesOfSelect(store, vocabularyData, t) ==
    IF vocabularyData = <<>> THEN <<>>
    ELSE accessesOfGet(store, Head(vocabularyData))
         \o accessesOfSelect(storeAfterGet(store, Head(vocabularyData), t),
                             Tail(vocabularyData), t)

accessesOfSession(store, vocabularyData, t) ==
    <<readVocabulary>> \o accessesOfSelect(store, vocabularyData, t)

\* mutant: a failed access is attempted again, succeeds, and the call goes on
updateWordStateFailing_Retry(store, log, stored, wordId, isCorrect, responseTimeMs, usedHint, currentTime, failAt) ==
    LET r == updateWordState(store, log, wordId, isCorrect, responseTimeMs, usedHint,
                             currentTime)
        accesses == accessesOfUpdate(store, wordId)
    IN  [wordStates |-> r.wordStates, logs |-> r.logs, storedLogs |-> r.storedLogs,
         attempts |-> SubSeq(accesses, 1, failAt)
                      \o SubSeq(accesses, failAt, Len(accesses)),
         thrown |-> FALSE]

\* updateWordState when its failAt-th storage access throws: what the accesses
\* before it wrote, and what was changed in memory before it
updateWordStateFailing(store, log, stored, wordId, isCorrect, responseTimeMs, usedHint, currentTime, failAt) ==
    LET accesses == accessesOfUpdate(store, wordId)
        \* the accesses not completed
        left == Len(accesses) - failAt + 1
        store1 == storeAfterGet(store, wordId, currentTime)
        wordState == getWordState(store, wordId, currentTime)
        log1 == logReview(log, wordId, wordState,
                          determineResponseQuality(isCorrect, responseTimeMs, usedHint,
                                                   wordState),
                          responseTimeMs, usedHint, currentTime)
        r == updateWordState(store, log, wordId, isCorrect, responseTimeMs, usedHint,
                             currentTime)
    IN  [wordStates |-> IF left = 1 THEN r.wordStates      \* saveWordState done
                        ELSE IF left <= 4 THEN store1     \* getWordState done
                        ELSE store,
         logs |-> IF left = 1 THEN r.logs                  \* lastLog changed in memory
                  ELSE IF left <= 4 THEN log1              \* this.logs.push done
                  ELSE log,
         storedLogs |-> IF left <= 3 THEN log1             \* first saveLogs done
                        ELSE stored,
         attempts |-> SubSeq(accesses, 1, failAt),
         thrown |-> TRUE]

\* startSession when its failAt-th storage access throws: the states created
\* for the entries before it stay stored, no selection is returned
RECURSIVE storeAfterAccesses(_, _, _, _)
storeAfterAccesses(store, vocabularyData, t, completed) ==
    IF vocabularyData = <<>> THEN store
    ELSE LET needed == Len(accessesOfGet(store, Head(vocabularyData)))
         IN  IF completed < needed THEN store
             ELSE storeAfterAccesses(storeAfterGet(store, Head(vocabularyData), t),
                                     Tail(vocabularyData), t, completed - needed)

startSessionFailing(store, vocabularyData, t, failAt) ==
    [wordStates |-> storeAfterAccesses(store, vocabularyData, t, failAt - 2),
     attempts |-> SubSeq(accessesOfSession(store, vocabularyData, t), 1, failAt),
     thrown |-> TRUE]

(***************************************************************************)
(* Analytics                                                               *)
(***************************************************************************)
\* "total += state[field]" over the ids of the store
RECURSIVE sumOver(_, _, _)
sumOver(store, ids, field) ==
    IF ids = {} THEN 0
    ELSE LET id == CHOOSE x \in ids : TRUE
         IN  store[id][field] + sumOver(store, ids \ {id}, field)

\* mutant: the mastered test is applied to every item, not only to REVIEW items
getAnalytics_MasteredAnyState(store) ==
    LET wordIds == DOMAIN store
        isMastered(id) == store[id].retrievability > 900 /\ store[id].streakCorrect >= 3
        totalReviews == sumOver(store, wordIds, "repsTotal")
        totalCorrect == sumOver(store, wordIds, "repsCorrect")
    IN  [totalWords |-> Cardinality(wordIds),
         newWords |-> Cardinality({id \in wordIds :
                          store[id].state = WordState_NEW /\ ~isMastered(id)}),
         learningWords |-> Cardinality({id \in wordIds :
                          store[id].state = WordState_LEARNING /\ ~isMastered(id)}),
         reviewWords |-> Cardinality({id \in wordIds :
                          store[id].state = WordState_REVIEW /\ ~isMastered(id)}),
         masteredWords |-> Cardinality({id \in wordIds : isMastered(id)}),
         averageAccuracy |-> IF totalReviews > 0
                             THEN (totalCorrect * SCALE) \div totalReviews ELSE 0,
         totalReviews |-> totalReviews]

\* mutant: a mastered item is counted as a review item as well
getAnalytics_MasteredTwice(store) ==
    LET wordIds == DOMAIN store
        isMastered(id) == store[id].retrievability > 900 /\ store[id].streakCorrect >= 3
        totalReviews == sumOver(store, wordIds, "repsTotal")
        totalCorrect == sumOver(store, wordIds, "repsCorrect")
    IN  [totalWords |-> Cardinality(wordIds),
         newWords |-> Cardinality({id \in wordIds : store[id].state = WordState_NEW}),
         learningWords |-> Cardinality({id \in wordIds :
                          store[id].state = WordState_LEARNING}),
         reviewWords |-> Cardinality({id \in wordIds :
                          store[id].state = WordState_REVIEW}),
         masteredWords |-> Cardinality({id \in wordIds :
                          store[id].state = WordState_REVIEW /\ isMastered(id)}),
         averageAccuracy |-> IF totalReviews > 0
                             THEN (totalCorrect * SCALE) \div totalReviews ELSE 0,
         totalReviews |-> totalReviews]

\* FSRSEngine.getAnalytics: the switch on state.state; averageAccuracy in
\* thousandths
getAnalytics(store) ==
    LET wordIds == DOMAIN store
        isMastered(id) == store[id].retrievability > 900 /\ store[id].streakCorrect >= 3
        totalReviews == sumOver(store, wordIds, "repsTotal")
        totalCorrect == sumOver(store, wordIds, "repsCorrect")
    IN  IF wordIds = {}
        THEN [totalWords |-> 0, newWords |-> 0, learningWords |-> 0, reviewWords |-> 0,
              masteredWords |-> 0, averageAccuracy |-> 0, totalReviews |-> 0]
        ELSE [totalWords |-> Cardinality(wordIds),
              newWords |-> Cardinality({id \in wordIds :
                               store[id].state = WordState_NEW}),
              learningWords |-> Cardinality({id \in wordIds :
                               store[id].state = WordState_LEARNING}),
              reviewWords |-> Cardinality({id \in wordIds :
                               store[id].state = WordState_REVIEW /\ ~isMastered(id)}),
              masteredWords |-> Cardinality({id \in wordIds :
                               store[id].state = WordState_REVIEW /\ isMastered(id)}),
              averageAccuracy |-> IF totalReviews > 0
                                  THEN (totalCorrect * SCALE) \div totalReviews ELSE 0,
              totalReviews |-> totalReviews]

(***************************************************************************)
(* State                                                                   *)
(***************************************************************************)
VARIABLES
    now,                 \* Date.now(), in minutes
    wordStates,          \* localStorage 'fsrs_word_states': id -> word state
    logs,                \* FSRSDataLogger.logs
    storedLogs,          \* localStorage 'fsrs_learning_logs'
    vocabularyData,      \* localStorage 'vocabularyData'
    responsesSinceReset, \* history: recordResponse calls since the last reset
    responsesEver,       \* history: recordResponse calls since the start
    failures,            \* history: the calls that a storage access ended
    currentRound,        \* GameEngine.currentRound: the concepts of the round
    selectedConcept,     \* GameEngine.selectedConcept: its id, or null
    selectedDefinition,  \* GameEngine.selectedDefinition: its id, or null
    matches,             \* GameEngine.matches
    score,               \* GameEngine.score
    attempts,            \* GameEngine.attempts
    lastHintUsed,        \* VocabularyGame.lastHintUsed
    matched,             \* the elements of class 'matched'
    frozen,              \* the elements of class 'frozen'
    timers,              \* the pending setTimeout callbacks, in the order set;
                         \* history: a check timer keeps the pairing that set it
    awaiting,            \* the checkMatch call suspended at its await, if any
    mismatched           \* history: the ids of the wrong attempts of the round

gameVars == <<currentRound, selectedConcept, selectedDefinition, matches, score,
              attempts, lastHintUsed, matched, frozen, timers, awaiting, mismatched>>

vars == <<now, wordStates, logs, storedLogs, vocabularyData, responsesSinceReset,
          responsesEver, failures, gameVars>>

null == "null"

IsInjective(q) == \A i, j \in 1 .. Len(q) : q[i] = q[j] => i = j

\* the vocabularies stored: lists of entries with pairwise distinct concepts,
\* the first entries of the default list. The responses range over both words
\* alike, so the lists in the other order add no case.
Vocabularies == {SubSeq(defaultData, 1, n) : n \in 0 .. Len(defaultData)}

Draws == {[explore |-> FALSE, bucket |-> 0]}
         \cup {[explore |-> TRUE, bucket |-> k] : k \in 0 .. Len(defaultData) - 1}

\* the draws of one selectWordsForSession call: one per iteration of its loop
DrawSeqs(vocabulary, sessionLength) ==
    [1 .. Max(0, targetCountOf(vocabulary, sessionLength)) -> Draws]

Init ==
    /\ now = 1
    /\ wordStates = EmptyStore
    /\ logs = <<>>
    /\ storedLogs = <<>>
    /\ vocabularyData = <<>>
    /\ responsesSinceReset = 0
    /\ responsesEver = 0
    /\ failures = <<>>
    /\ currentRound = {}
    /\ selectedConcept = null
    /\ selectedDefinition = null
    /\ matches = {}
    /\ score = 0
    /\ attempts = 0
    /\ lastHintUsed = FALSE
    /\ matched = {}
    /\ frozen = {}
    /\ timers = <<>>
    /\ awaiting = <<>>
    /\ mismatched = {}

(***************************************************************************)
(* Operations                                                              *)
(***************************************************************************)
\* the clock advances
Tick(t) ==
    /\ t > now
    /\ now' = t
    /\ UNCHANGED <<wordStates, logs, storedLogs, vocabularyData, responsesSinceReset,
                   responsesEver>>

\* AdaptiveLearningClient.initializeUser / storeVocabulary
StoreVocabulary(vocabulary) ==
    /\ vocabulary # vocabularyData
    /\ vocabularyData' = vocabulary
    /\ UNCHANGED <<now, wordStates, logs, storedLogs, responsesSinceReset, responsesEver>>

\* AdaptiveLearningClient.startSession
StartSession(sessionLength, draws) ==
    LET r == selectWordsForSession(wordStates, vocabularyData, sessionLength, draws, now)
    IN  /\ wordStates' = r.wordStates
        /\ UNCHANGED <<now, logs, storedLogs, vocabularyData, responsesSinceReset,
                       responsesEver>>

\* AdaptiveLearningClient.recordResponse
RecordResponse(wordId, isCorrect, responseTimeMs, usedHint) ==
    \E r \in {updateWordState(wordStates, logs, wordId, isCorrect, responseTimeMs,
                              usedHint, now)} :
        /\ wordStates' = r.wordStates
        /\ logs' = r.logs
        /\ storedLogs' = r.storedLogs
        /\ responsesSinceReset' = responsesSinceReset + 1
        /\ responsesEver' = responsesEver + 1
        /\ UNCHANGED <<now, vocabularyData>>

\* FSRSEngine.getWordState called on its own
GetWordState(wordId) ==
    /\ wordId \notin DOMAIN wordStates
    /\ wordStates' = storeAfterGet(wordStates, wordId, now)
    /\ UNCHANGED <<now, logs, storedLogs, vocabularyData, responsesSinceReset,
                       responsesEver>>

\* AdaptiveLearningClient.resetFSRSData
ResetFSRSData ==
    LET r == resetData(wordStates, logs, storedLogs)
    IN  /\ wordStates' = r.wordStates
        /\ logs' = r.logs
        /\ storedLogs' = r.storedLogs
        /\ vocabularyData' = <<>>
        /\ responsesSinceReset' = 0
        /\ UNCHANGED <<now, responsesEver>>

Next ==
  /\ UNCHANGED <<failures, gameVars>>
  /\
    \/ \E t \in Times : Tick(t)
    \/ \E vocabulary \in Vocabularies : StoreVocabulary(vocabulary)
    \/ \E sessionLength \in SessionLengths :
         \E draws \in DrawSeqs(vocabularyData, sessionLength) :
            StartSession(sessionLength, draws)
    \/ \E wordId \in Words, isCorrect \in BOOLEAN,
          responseTimeMs \in ResponseTimes, usedHint \in BOOLEAN :
            /\ responsesEver < MaxLog
            /\ \/ getWordState(wordStates, wordId, now).stability <= MaxStability
               \/ determineResponseQuality(isCorrect, responseTimeMs, usedHint,
                                           getWordState(wordStates, wordId, now)) # FAIL
            /\ RecordResponse(wordId, isCorrect, responseTimeMs, usedHint)
    \/ \E wordId \in Words : GetWordState(wordId)
    \/ ResetFSRSData

Spec == Init /\ [][Next]_vars

(***************************************************************************)
(* Repeated review of one item: MaxReviews responses to the first word of  *)
(* the vocabulary, with lookups of the others, the clock and resets.       *)
(***************************************************************************)
ReviewedWords == {defaultData[1]}

ReviewNext ==
  /\ UNCHANGED <<failures, gameVars>>
  /\
    \/ \E t \in Times : Tick(t)
    \/ \E wordId \in ReviewedWords, isCorrect \in BOOLEAN,
          responseTimeMs \in ResponseTimes, usedHint \in BOOLEAN :
            /\ responsesEver < MaxReviews
            /\ \/ getWordState(wordStates, wordId, now).stability <= MaxStability
               \/ determineResponseQuality(isCorrect, responseTimeMs, usedHint,
                                           getWordState(wordStates, wordId, now)) # FAIL
            /\ RecordResponse(wordId, isCorrect, responseTimeMs, usedHint)
    \/ \E wordId \in Words : GetWordState(wordId)
    \/ ResetFSRSData

ReviewSpec == Init /\ [][ReviewNext]_vars

(***************************************************************************)
(* The history of one item: up to MaxHistory responses without hint to the *)
(* first word, with the clock moving on by a day or by eleven days.        *)
(***************************************************************************)
MaxHistory == 5

HistoryTimes == {1 + MinutesPerDay, 1 + 11 * MinutesPerDay}

HistoryNext ==
  /\ UNCHANGED <<failures, gameVars>>
  /\
    \/ \E t \in HistoryTimes : Tick(t)
    \/ \E wordId \in ReviewedWords, isCorrect \in BOOLEAN,
          responseTimeMs \in ResponseTimes, usedHint \in {FALSE} :
            /\ responsesEver < MaxHistory
            /\ \/ getWordState(wordStates, wordId, now).stability <= MaxStability
               \/ determineResponseQuality(isCorrect, responseTimeMs, usedHint,
                                           getWordState(wordStates, wordId, now)) # FAIL
            /\ RecordResponse(wordId, isCorrect, responseTimeMs, usedHint)

HistorySpec == Init /\ [][HistoryNext]_vars

(***************************************************************************)
(* One item answered correctly, without hint and at a steady pace, so that *)
(* every response is graded GOOD; up to MaxGood responses.  The responses  *)
(* keep coming while the bound allows it.                                  *)
(***************************************************************************)
MaxGood == 5

SteadyTimes == {800, 1000, 1200}     \* milliseconds

GoodNext ==
  /\ UNCHANGED <<failures, gameVars>>
  /\ \E wordId \in ReviewedWords, responseTimeMs \in SteadyTimes :
        /\ responsesEver < MaxGood
        /\ determineResponseQuality(TRUE, responseTimeMs, FALSE,
                                    getWordState(wordStates, wordId, now)) = GOOD
        /\ RecordResponse(wordId, TRUE, responseTimeMs, FALSE)

\* a further response: what every step of GoodNext does to the counter
GoodResponse == responsesEver < MaxGood /\ responsesEver' = responsesEver + 1

GoodSpec == Init /\ [][GoodNext]_vars /\ WF_responsesEver(GoodResponse)

(***************************************************************************)
(* Faults: vocabularies with an entry that has no concept, and calls in    *)
(* which one storage access throws.  Up to MaxFaultLog responses and       *)
(* MaxFaults failing calls.                                                *)
(***************************************************************************)
MaxFaultLog == 1
MaxFaults == 1

\* vocabItem.concept of an entry without the field; as a property key it is
\* the string "undefined"
undefined == "undefined"

FaultVocabularies ==
    {<<defaultData[1]>>, <<undefined>>, <<defaultData[1], undefined>>}

\* the responses of the fault runs: quick answers without hint
FaultTimes == {800}

\* recordResponse in which the failAt-th storage access throws
RecordResponseFails(wordId, isCorrect, responseTimeMs, usedHint, failAt) ==
    /\ failAt \in 1 .. Len(accessesOfUpdate(wordStates, wordId))
    /\ \E r \in {updateWordStateFailing(wordStates, logs, storedLogs, wordId, isCorrect,
                                         responseTimeMs, usedHint, now, failAt)} :
        /\ wordStates' = r.wordStates
        /\ logs' = r.logs
        /\ storedLogs' = r.storedLogs
        /\ failures' = Append(failures,
                              [operation |-> "recordResponse", wordId |-> wordId,
                               failedAccess |-> failAt, attempts |-> r.attempts,
                               remaining |-> Len(accessesOfUpdate(wordStates, wordId))
                                             - failAt,
                               thrown |-> r.thrown])
        /\ UNCHANGED <<now, vocabularyData, responsesSinceReset, responsesEver>>

\* startSession in which the failAt-th storage access throws
StartSessionFails(failAt) ==
    /\ failAt \in 1 .. Len(accessesOfSession(wordStates, vocabularyData, now))
    /\ \E r \in {startSessionFailing(wordStates, vocabularyData, now, failAt)} :
        /\ wordStates' = r.wordStates
        /\ failures' = Append(failures,
                              [operation |-> "startSession", wordId |-> "",
                               failedAccess |-> failAt, attempts |-> r.attempts,
                               remaining |-> Len(accessesOfSession(wordStates,
                                                    vocabularyData, now)) - failAt,
                               thrown |-> r.thrown])
        /\ UNCHANGED <<now, logs, storedLogs, vocabularyData, responsesSinceReset,
                       responsesEver>>

FaultNext ==
  /\ UNCHANGED gameVars
  /\
    \/ /\ UNCHANGED failures
       /\ \/ \E vocabulary \in FaultVocabularies : StoreVocabulary(vocabulary)
          \/ \E sessionLength \in {MaxSession} :
               \E draws \in DrawSeqs(vocabularyData, sessionLength) :
                  StartSession(sessionLength, draws)
          \/ \E wordId \in ReviewedWords, isCorrect \in BOOLEAN,
                responseTimeMs \in FaultTimes, usedHint \in {FALSE} :
                  /\ responsesEver < MaxFaultLog
                  /\ RecordResponse(wordId, isCorrect, responseTimeMs, usedHint)
    \/ /\ Len(failures) < MaxFaults
       /\ \/ \E wordId \in ReviewedWords, isCorrect \in BOOLEAN,
                responseTimeMs \in FaultTimes, usedHint \in {FALSE} :
                  \E failAt \in 1 .. 6 :
                     RecordResponseFails(wordId, isCorrect, responseTimeMs, usedHint,
                                         failAt)
          \/ \E failAt \in 1 .. 1 + 2 * Len(vocabularyData) : StartSessionFails(failAt)

FaultSpec == Init /\ [][FaultNext]_vars

(***************************************************************************)
(* The matching game: clicks on the items of a round, the timers they set  *)
(* and the asynchronous match check.  A timer callback or a click handler  *)
(* runs to its end; the part of checkMatch after its await runs before any *)
(* other callback.  Up to MaxChecks responses, MaxTimers pending checks.   *)
(***************************************************************************)
MaxChecks == 2
MaxTimers == 2

\* Date.now() - selectionStartTime when the check runs
CheckTimes == {800}

gameSessionLength == 15
checkDelay == 300
freezeDelay == 1000
unfreezeDelay == 3000

element(type, id) == [type |-> type, id |-> id]

\* the pending timers still to fire once the i-th has fired
withoutTimer(pending, i) ==
    SubSeq(pending, 1, i - 1) \o SubSeq(pending, i + 1, Len(pending))

\* a timer can fire unless one set earlier with no longer delay is pending
canFire(pending, i) ==
    \A j \in 1 .. i - 1 : pending[j].delay > pending[i].delay

pendingChecks(pending) ==
    Cardinality({i \in 1 .. Len(pending) : pending[i].kind = "checkMatch"})

\* GameEngine.handleCorrectMatch's score
scoreAfterMatch(points, tries) == points + Max(1, 4 - tries)

\* VocabularyGame.startNewGame (with initializeGame's storeVocabulary done),
\* pressed while no callback is pending
StartNewGame(draws) ==
    /\ awaiting = <<>>
    /\ timers = <<>>
    /\ vocabularyData # <<>>
    /\ StartSession(gameSessionLength, draws)
    /\ currentRound' = Words
    /\ matches' = {}
    /\ score' = 0
    /\ attempts' = 0
    /\ selectedConcept' = null
    /\ selectedDefinition' = null
    /\ matched' = {}
    /\ frozen' = {}
    /\ mismatched' = {}
    /\ UNCHANGED <<failures, lastHintUsed, timers, awaiting>>

\* VocabularyGame.selectItem: a click on an item
SelectItem(type, id) ==
    LET concept == IF type = "concept" THEN id ELSE selectedConcept
        definition == IF type = "definition" THEN id ELSE selectedDefinition
    IN  /\ awaiting = <<>>
        /\ id \in currentRound
        /\ element(type, id) \notin matched \cup frozen
        /\ selectedConcept' = concept
        /\ selectedDefinition' = definition
        /\ IF concept # null /\ definition # null
           THEN /\ pendingChecks(timers) < MaxTimers
                /\ timers' = Append(timers, [kind |-> "checkMatch", delay |-> checkDelay,
                                             elements |-> {element("concept", concept),
                                                           element("definition", definition)}])
           ELSE timers' = timers
        /\ UNCHANGED <<now, wordStates, logs, storedLogs, vocabularyData,
                       responsesSinceReset, responsesEver, failures, currentRound,
                       matches, score, attempts, lastHintUsed, matched, frozen,
                       awaiting, mismatched>>

\* VocabularyGame.showHint
ShowHint ==
    /\ awaiting = <<>>
    /\ selectedConcept \in currentRound
    /\ ~lastHintUsed
    /\ lastHintUsed' = TRUE
    /\ UNCHANGED <<now, wordStates, logs, storedLogs, vocabularyData,
                   responsesSinceReset, responsesEver, failures, currentRound,
                   selectedConcept, selectedDefinition, matches, score, attempts,
                   matched, frozen, timers, awaiting, mismatched>>

\* VocabularyGame.resetRound, pressed while no callback is pending
ResetRound ==
    /\ awaiting = <<>>
    /\ timers = <<>>
    /\ currentRound # {}
    /\ selectedConcept' = null
    /\ selectedDefinition' = null
    /\ matches' = {}
    /\ score' = 0
    /\ attempts' = 0
    /\ matched' = {}
    /\ frozen' = {}
    /\ mismatched' = {}
    /\ UNCHANGED <<now, wordStates, logs, storedLogs, vocabularyData,
                   responsesSinceReset, responsesEver, failures, currentRound,
                   lastHintUsed, timers, awaiting>>

\* VocabularyGame.checkMatch, called by the i-th timer, up to its await:
\* GameEngine.checkMatch and the whole of recordResponse
CheckMatch(i, responseTimeMs) ==
    /\ awaiting = <<>>
    /\ i \in 1 .. Len(timers)
    /\ timers[i].kind = "checkMatch"
    /\ canFire(timers, i)
    /\ timers' = withoutTimer(timers, i)
    /\ IF selectedConcept = null \/ selectedDefinition = null
       THEN UNCHANGED <<now, wordStates, logs, storedLogs, vocabularyData,
                        responsesSinceReset, responsesEver, attempts, awaiting>>
       ELSE /\ responsesEver < MaxChecks
            /\ attempts' = attempts + 1
            /\ RecordResponse(selectedConcept, selectedConcept = selectedDefinition,
                              responseTimeMs, lastHintUsed)
            /\ awaiting' = <<[isMatch |-> selectedConcept = selectedDefinition,
                              conceptId |-> selectedConcept,
                              definitionId |-> selectedDefinition]>>
    /\ UNCHANGED <<failures, currentRound, selectedConcept, selectedDefinition,
                   matches, score, lastHintUsed, matched, frozen, mismatched>>

\* VocabularyGame.checkMatch after its await: handleCorrectMatch or
\* handleIncorrectMatch
ResumeCheckMatch ==
    /\ awaiting # <<>>
    /\ awaiting' = <<>>
    /\ lastHintUsed' = FALSE
    /\ IF awaiting[1].isMatch
       THEN /\ matches' = matches \cup {selectedConcept}
            /\ score' = scoreAfterMatch(score, attempts)
            /\ matched' = matched \cup {element("concept", selectedConcept),
                                        element("definition", selectedDefinition)}
            /\ selectedConcept' = null
            /\ selectedDefinition' = null
            /\ UNCHANGED <<timers, mismatched>>
       ELSE /\ timers' = Append(timers,
                            [kind |-> "freeze", delay |-> freezeDelay,
                             elements |-> {element("concept", selectedConcept),
                                           element("definition", selectedDefinition)}])
            /\ mismatched' = mismatched \cup {selectedConcept, selectedDefinition}
            /\ UNCHANGED <<matches, score, matched, selectedConcept,
                           selectedDefinition>>
    /\ UNCHANGED <<now, wordStates, logs, storedLogs, vocabularyData,
                   responsesSinceReset, responsesEver, failures, currentRound,
                   attempts, frozen>>

\* the callback handleIncorrectMatch set: the two items freeze, the selection
\* is dropped
Freeze(i) ==
    /\ awaiting = <<>>
    /\ i \in 1 .. Len(timers)
    /\ timers[i].kind = "freeze"
    /\ canFire(timers, i)
    /\ frozen' = frozen \cup timers[i].elements
    /\ selectedConcept' = null
    /\ selectedDefinition' = null
    /\ timers' = Append(withoutTimer(timers, i),
                        [kind |-> "unfreeze", delay |-> unfreezeDelay,
                         elements |-> timers[i].elements])
    /\ UNCHANGED <<now, wordStates, logs, storedLogs, vocabularyData,
                   responsesSinceReset, responsesEver, failures, currentRound,
                   matches, score, attempts, lastHintUsed, matched, awaiting,
                   mismatched>>

\* the callback the freeze set: the two items can be selected again
Unfreeze(i) ==
    /\ awaiting = <<>>
    /\ i \in 1 .. Len(timers)
    /\ timers[i].kind = "unfreeze"
    /\ canFire(timers, i)
    /\ frozen' = frozen \ timers[i].elements
    /\ timers' = withoutTimer(timers, i)
    /\ UNCHANGED <<now, wordStates, logs, storedLogs, vocabularyData,
                   responsesSinceReset, responsesEver, failures, currentRound,
                   selectedConcept, selectedDefinition, matches, score, attempts,
                   lastHintUsed, matched, awaiting, mismatched>>

GameNext ==
    \/ /\ awaiting = <<>>
       /\ StoreVocabulary(defaultData)
       /\ UNCHANGED <<failures, gameVars>>
    \/ \E draws \in DrawSeqs(vocabularyData, gameSessionLength) : StartNewGame(draws)
    \/ \E type \in {"concept", "definition"}, id \in Words : SelectItem(type, id)
    \/ ShowHint
    \/ ResetRound
    \/ \E i \in 1 .. MaxTimers + MaxChecks, responseTimeMs \in CheckTimes :
          CheckMatch(i, responseTimeMs)
    \/ ResumeCheckMatch
    \/ \E i \in 1 .. MaxTimers + MaxChecks : Freeze(i)
    \/ \E i \in 1 .. MaxTimers + MaxChecks : Unfreeze(i)

GameSpec == Init /\ [][GameNext]_vars

(***************************************************************************)
(* Properties                                                              *)
(***************************************************************************)
\* AdaptiveLearningClient.startSession's "words" in the current state, when
\* the random draws of the selection come out as draws
selectedConcepts(sessionLength, draws) ==
    LET r == selectWordsForSession(wordStates, vocabularyData, sessionLength,
                                   draws, now).selectedWords
    IN  [i \in 1 .. Len(r) |-> r[i].concept]

IsNewDefault(wordState) ==
    /\ wordState.state = WordState_NEW
    /\ wordState.stability = 0
    /\ wordState.difficulty = 300
    /\ wordState.retrievability = 1000
    /\ wordState.repsTotal = 0
    /\ wordState.repsCorrect = 0
    /\ wordState.streakCorrect = 0
    /\ wordState.lapseCount = 0
    /\ wordState.hintUsedCount = 0

\* C1: every stored item that has been reviewed at least once has difficulty
\* in [0,1], retrievability in [0,1] and stability >= 0.1; an item never
\* reviewed has stability 0.
C1_ReviewedRanges ==
    \A id \in DOMAIN wordStates :
        LET ws == wordStates[id]
        IN  /\ ws.repsTotal >= 1 =>
                /\ ws.difficulty >= 0 /\ ws.difficulty <= 1 * SCALE
                /\ ws.retrievability >= 0 /\ ws.retrievability <= 1 * SCALE
                /\ ws.stability >= 100
            /\ ws.repsTotal = 0 => ws.stability = 0

\* C1 witness: an item reviewed twice whose stability sits on the 0.1 floor,
\* next to an item that was created and never reviewed
C1_Witness ==
    /\ \E id \in DOMAIN wordStates :
          wordStates[id].repsTotal = 2 /\ wordStates[id].stability = 100
    /\ \E id \in DOMAIN wordStates : wordStates[id].repsTotal = 0

\* C2: every stored item's uncertainty lies in [0.1, 1].
C2_UncertaintyRange ==
    \A id \in DOMAIN wordStates :
        wordStates[id].uncertainty >= 100 /\ wordStates[id].uncertainty <= 1 * SCALE

\* C3: an id with no stored state is looked up as NEW, stability 0, difficulty
\* 0.3, retrievability 1.0, all counters 0 and nextDueAt = creation time; a
\* stored item keeps these values and stays due until its first response.
C3_NeverSeenDefaults ==
    /\ \A id \in Words \ DOMAIN wordStates :
          LET ws == getWordState(wordStates, id, now)
          IN  IsNewDefault(ws) /\ ws.createdTime = now /\ ws.nextDueTime = now
    /\ \A id \in DOMAIN wordStates :
          LET ws == wordStates[id]
          IN  ws.repsTotal = 0 =>
                 /\ IsNewDefault(ws)
                 /\ ws.nextDueTime = ws.createdTime
                 /\ ws.nextDueTime <= now

\* C3 witness: an item created earlier, still without a response, while another
\* id has no state yet
C3_Witness ==
    /\ \E id \in DOMAIN wordStates :
          wordStates[id].repsTotal = 0 /\ wordStates[id].createdTime < now
    /\ Words \ DOMAIN wordStates # {}

\* C4: every recorded response graded FAIL leaves the item with
\* streakCorrect = 0 and lapseCount one higher than before.
C4_FailResetsStreak ==
    [][\A id \in Words :
          (/\ Len(logs') = Len(logs) + 1
           /\ logs'[Len(logs')].wordId = id
           /\ logs'[Len(logs')].responseQuality = FAIL)
          => /\ wordStates'[id].streakCorrect = 0
             /\ wordStates'[id].lapseCount
                   = getWordState(wordStates, id, now).lapseCount + 1]_vars

C6_SelectionExactCount ==
    \A sessionLength \in 0 .. MaxSession :
        \A draws \in DrawSeqs(vocabularyData, sessionLength) :
            Len(selectedConcepts(sessionLength, draws))
                = Min(sessionLength, Len(vocabularyData))

\* C7: the number of data rows of exportCSV equals the number of responses
\* recorded since the last reset whose audit entry has its before- and its
\* after-snapshot; every response since the reset has such an entry.
C7_CsvRowCount ==
    /\ csvDataRowCount(exportCSV(logs))
          = Cardinality({i \in 1 .. Len(logs) : logs[i].stateAfter # <<>>})
    /\ Len(logs) = responsesSinceReset
    /\ csvDataRowCount(exportCSV(logs)) = responsesSinceReset

\* C7 witness: a response recorded after a reset that discarded an earlier
\* response: one data row under the header
C7_Witness ==
    /\ responsesSinceReset = 1
    /\ responsesEver > responsesSinceReset
    /\ Len(logs) = 1
    /\ Len(exportCSV(logs)) = 2

\* C8: a session length of 0 or below returns the empty list, for every
\* vocabulary.
C8_NonPositiveLengthEmpty ==
    \A sessionLength \in SessionLengths :
        sessionLength <= 0 =>
            \A draws \in DrawSeqs(vocabularyData, sessionLength) :
                selectWordsForSession(wordStates, vocabularyData, sessionLength,
                                      draws, now).selectedWords = <<>>

\* C8 witness: a vocabulary of two reviewed items, from which a session of
\* length 1 does select
C8_Witness ==
    /\ Len(vocabularyData) = 2
    /\ \A i \in 1 .. 2 :
          /\ vocabularyData[i] \in DOMAIN wordStates
          /\ wordStates[vocabularyData[i]].repsTotal > 0
    /\ \E draws \in DrawSeqs(vocabularyData, 1) : selectedConcepts(1, draws) # <<>>

\* C9: after a reset no item state and no audit entry from before it is left:
\* until the next response the logs are empty, in memory and persisted, and a
\* lookup of any id returns the NEW default state with all counters 0.
C9_ResetForgetsEverything ==
    responsesSinceReset = 0 =>
        /\ logs = <<>>
        /\ storedLogs = <<>>
        /\ \A id \in Words : IsNewDefault(getWordState(wordStates, id, now))

\* C9 witness: responses were recorded, a reset ran, and both ids have been
\* looked up again since
C9_Witness ==
    /\ responsesEver > 0
    /\ responsesSinceReset = 0
    /\ DOMAIN wordStates = Words

\* C10: an incorrect response (4000 ms, no hint) on a never-reviewed item
\* leaves it NEW with stability w0 = 0.4, repsTotal 1, repsCorrect 0,
\* streakCorrect 0 and lapseCount 1.
C10_ScenarioA ==
    \A id \in Words :
        (\E i \in 1 .. Len(logs) :
            /\ {j \in 1 .. Len(logs) : logs[j].wordId = id} = {i}
            /\ logs[i].stateBefore.repsTotal = 0
            /\ logs[i].responseQuality = FAIL
            /\ logs[i].responseTime = 4000
            /\ ~logs[i].usedHint)
        => /\ wordStates[id].state = WordState_NEW
           /\ wordStates[id].stability = W0
           /\ wordStates[id].repsTotal = 1
           /\ wordStates[id].repsCorrect = 0
           /\ wordStates[id].streakCorrect = 0
           /\ wordStates[id].lapseCount = 1

\* C10 witness: "Gravity" has had exactly that one response
C10_Witness ==
    /\ "Gravity" \in DOMAIN wordStates
    /\ wordStates["Gravity"].repsTotal = 1
    /\ wordStates["Gravity"].lapseCount = 1
    /\ wordStates["Gravity"].lastResponseTime = 4000
    /\ wordStates["Gravity"].hintUsedCount = 0

\* C11: after the Scenario A response, a correct response of 800 ms without a
\* hint on the same item is graded EASY, moves the item from NEW to LEARNING
\* and leaves repsCorrect = 1, streakCorrect = 1, repsTotal = 2, lapseCount = 1.
C11_ScenarioB ==
    \A id \in Words :
        \A i, k \in 1 .. Len(logs) :
            (/\ i < k
             /\ {j \in 1 .. Len(logs) : logs[j].wordId = id} = {i, k}
             /\ logs[i].stateBefore.repsTotal = 0
             /\ logs[i].responseQuality = FAIL
             /\ logs[i].responseTime = 4000
             /\ ~logs[i].usedHint
             /\ logs[k].responseTime = 800
             /\ ~logs[k].usedHint
             \* the second response was a correct one
             /\ wordStates[id].lapseCount = 1)
            => /\ logs[k].responseQuality = EASY
               /\ logs[k].stateBefore.state = WordState_NEW
               /\ wordStates[id].state = WordState_LEARNING
               /\ wordStates[id].repsTotal = 2
               /\ wordStates[id].repsCorrect = 1
               /\ wordStates[id].streakCorrect = 1

\* C11 witness: "Gravity" after Scenario A and the correct 800 ms response
C11_Witness ==
    /\ Len(logs) = 2
    /\ logs[1].wordId = "Gravity" /\ logs[2].wordId = "Gravity"
    /\ logs[1].responseQuality = FAIL /\ logs[1].responseTime = 4000
    /\ ~logs[1].usedHint /\ logs[1].stateBefore.repsTotal = 0
    /\ logs[2].responseTime = 800 /\ ~logs[2].usedHint
    /\ wordStates["Gravity"].lapseCount = 1
    /\ wordStates["Gravity"].repsCorrect = 1

\* C12 (as stated): masteredWords of getAnalytics equals the number of stored
\* items with retrievability > 0.9 and streakCorrect >= 3, whatever their
\* lifecycle state.
C12_MasteredAnyState ==
    getAnalytics(wordStates).masteredWords
        = Cardinality({id \in DOMAIN wordStates :
              /\ wordStates[id].retrievability > 900
              /\ wordStates[id].streakCorrect >= 3})

\* C12 (amended): masteredWords of getAnalytics equals the number of stored
\* items in state REVIEW with retrievability > 0.9 and streakCorrect >= 3, and
\* reviewWords counts the other REVIEW items.
C12_MasteredReviewOnly ==
    LET analytics == getAnalytics(wordStates)
        inReview == {id \in DOMAIN wordStates : wordStates[id].state = WordState_REVIEW}
        mastered == {id \in inReview : /\ wordStates[id].retrievability > 900
                                       /\ wordStates[id].streakCorrect >= 3}
    IN  /\ analytics.masteredWords = Cardinality(mastered)
        /\ analytics.reviewWords = Cardinality(inReview \ mastered)

\* C12 witness: one item counted as mastered next to an item that is not
C12_Witness ==
    /\ getAnalytics(wordStates).masteredWords = 1
    /\ getAnalytics(wordStates).totalWords = 2

\* C14: once an audit entry has its stateAfter attached, no operation other
\* than a reset changes any field of it, in memory or persisted, including
\* later responses to the same item.
C14_CompletedEntriesFrozen ==
    [][\/ ResetFSRSData
       \/ \A i \in 1 .. Len(logs) :
             logs[i].stateAfter # <<>> =>
                /\ i <= Len(logs') /\ logs'[i] = logs[i]
                /\ i <= Len(storedLogs') /\ storedLogs'[i] = storedLogs[i]]_vars

\* C14 witness: a completed entry followed by a later response to the same item
C14_Witness ==
    /\ Len(logs) = 2
    /\ logs[1].wordId = logs[2].wordId
    /\ logs[1].stateAfter # <<>>
    /\ logs[2].stateAfter # <<>>
    /\ storedLogs = logs

\* C15: the stored state of an existing item changes only through a response
\* recorded for that item or a reset: a session start, a lookup and a response
\* to any other item leave every field of it unchanged.
C15_StateChangesOnlyByOwnResponse ==
    [][\/ ResetFSRSData
       \/ \A id \in DOMAIN wordStates :
             \/ /\ id \in DOMAIN wordStates'
                /\ wordStates'[id] = wordStates[id]
             \/ /\ Len(logs') = Len(logs) + 1
                /\ logs'[Len(logs')].wordId = id]_vars

\* C15 witness: an item reviewed a day ago, in the stored vocabulary, whose
\* stored state is still the one its response left, after a response to the
\* other item
C15_Witness ==
    /\ Len(logs) = 2
    /\ logs[1].wordId # logs[2].wordId
    /\ logs[1].timestamp < now
    /\ \E i \in 1 .. Len(vocabularyData) : vocabularyData[i] = logs[1].wordId
    /\ stateAfterOf(wordStates[logs[1].wordId]) = logs[1].stateAfter[1]

\* C16: between two resets the set of ids held in the state store never
\* shrinks, whatever vocabulary is stored.
C16_StoreNeverShrinks ==
    [][ResetFSRSData \/ DOMAIN wordStates \subseteq DOMAIN wordStates']_vars

\* C16 witness: the store holds a reviewed item that the stored vocabulary no
\* longer contains
C16_Witness ==
    /\ Len(vocabularyData) = 1
    /\ \E id \in DOMAIN wordStates :
          /\ wordStates[id].repsTotal > 0
          /\ id # vocabularyData[1]
    /\ vocabularyData[1] \in DOMAIN wordStates

\* the response times the classifier is compared on: the sampled ones and the
\* halves and doubles of them
ClassifierTimes == ResponseTimes \cup {t \div 2 : t \in ResponseTimes}
                                 \cup {2 * t : t \in ResponseTimes}

\* C20: for every input and every prior average response time, the grade of
\* determineResponseQuality is: FAIL if incorrect; otherwise GOOD, or EASY if
\* the prior average is > 0 and responseTime / average < 0.5, or HARD if the
\* prior average is > 0 and the ratio is > 2.0; then one grade lower, floored
\* at FAIL, if a hint was used.
C20_ClassifierMatchesReference ==
    \A id \in Words, isCorrect \in BOOLEAN, responseTimeMs \in ClassifierTimes,
       usedHint \in BOOLEAN :
        LET wordState == getWordState(wordStates, id, now)
            average == wordState.avgResponseTime    \* in thousandths of a ms
            \* ratio < 1/2  and  ratio > 2, with ratio = 1000 * responseTimeMs / average
            below == average > 0 /\ 2 * SCALE * responseTimeMs < average
            above == average > 0 /\ SCALE * responseTimeMs > 2 * average
            timed == IF below THEN EASY ELSE IF above THEN HARD ELSE GOOD
            reference == IF ~isCorrect THEN FAIL
                         ELSE IF ~usedHint THEN timed
                         ELSE IF timed = FAIL THEN FAIL ELSE timed - 1
        IN  determineResponseQuality(isCorrect, responseTimeMs, usedHint, wordState)
                = reference

\* C20 witness: an item whose average is 800 ms: 400 ms is exactly half of it
\* (GOOD), 4000 ms is slow (HARD) and slow with a hint is FAIL, while an item
\* without an average is graded GOOD at any speed
C20_Witness ==
    /\ \E id \in DOMAIN wordStates :
          /\ wordStates[id].avgResponseTime = 800 * SCALE
          /\ determineResponseQuality(TRUE, 400, FALSE, wordStates[id]) = GOOD
          /\ determineResponseQuality(TRUE, 4000, FALSE, wordStates[id]) = HARD
          /\ determineResponseQuality(TRUE, 4000, TRUE, wordStates[id]) = FAIL
    /\ \E id \in DOMAIN wordStates :
          /\ wordStates[id].avgResponseTime = 0
          /\ determineResponseQuality(TRUE, 4000, FALSE, wordStates[id]) = GOOD

\* C13: whatever the order of clicks, match-check timers and suspended match
\* checks, every audit entry is completed by the response that appended it: it
\* has its after-snapshot, the snapshot and the changes are those of the same
\* item one response later, the entry starts from the state the item's entry
\* before ended with, and the item's latest entry ends with its stored state
C13_AuditEntriesPaired ==
    \A i \in 1 .. Len(logs) :
       LET e == logs[i]
           earlier == {j \in 1 .. i - 1 : logs[j].wordId = e.wordId}
           later == {j \in i + 1 .. Len(logs) : logs[j].wordId = e.wordId}
       IN  /\ e.stateAfter # <<>>
           /\ e.stateAfter[1].repsTotal = e.stateBefore.repsTotal + 1
           /\ e.changes
                = <<[stabilityChange |->
                        e.stateAfter[1].stability - e.stateBefore.stability,
                     difficultyChange |->
                        e.stateAfter[1].difficulty - e.stateBefore.difficulty,
                     retrievabilityChange |->
                        e.stateAfter[1].retrievability - e.stateBefore.retrievability]>>
           /\ IF earlier = {}
              THEN e.stateBefore.repsTotal = 0
              ELSE \E j \in earlier :
                      /\ \A k \in earlier : k <= j
                      /\ e.stateBefore = stateBeforeOf(logs[j].stateAfter[1])
           /\ later = {} =>
                 /\ e.wordId \in DOMAIN wordStates
                 /\ e.stateAfter[1] = stateAfterOf(wordStates[e.wordId])

\* C13 witness: two checks for different items have been recorded, the second
\* is suspended at its await and a further check timer is pending
C13_Witness ==
    /\ Len(logs) = 2
    /\ logs[1].wordId # logs[2].wordId
    /\ awaiting # <<>>
    /\ pendingChecks(timers) >= 1

\* C17: a recordResponse or startSession call in which a storage access fails
\* ends with the exception at that access: the accesses it attempted are the ones
\* up to the failed one, each once (no retry, nothing after it), so the stored
\* log gains at most this response's before-entry, without after-snapshot, the
\* item's review counters are not
\* saved unless only the last log write failed, and a failed startSession has only
\* added default states
C17_FailureStopsAndPropagates ==
    [][failures' # failures =>
         LET f == failures'[Len(failures')]
         IN  /\ f.thrown
             /\ Len(f.attempts) = f.failedAccess
             /\ \/ storedLogs' = storedLogs
                \/ /\ Len(storedLogs') = Len(logs) + 1
                   /\ SubSeq(storedLogs', 1, Len(logs)) = logs
                   /\ storedLogs'[Len(storedLogs')].wordId = f.wordId
                   /\ storedLogs'[Len(storedLogs')].stateAfter = <<>>
             /\ f.operation = "recordResponse" /\ f.remaining > 0 =>
                   getWordState(wordStates', f.wordId, now).repsTotal
                     = getWordState(wordStates, f.wordId, now).repsTotal
             /\ f.operation = "startSession" =>
                   /\ logs' = logs
                   /\ \A id \in DOMAIN wordStates :
                         id \in DOMAIN wordStates' /\ wordStates'[id] = wordStates[id]
                   /\ \A id \in DOMAIN wordStates' \ DOMAIN wordStates :
                         IsNewDefault(wordStates'[id])]_vars

\* a response that failed at saveWordState: its before-entry is in the log,
\* the after-snapshot is not
C17_Witness ==
    /\ failures # <<>>
    /\ failures[1].operation = "recordResponse"
    /\ failures[1].remaining \in 1 .. 2
    /\ logs # <<>>
    /\ logs[Len(logs)].stateAfter = <<>>
    /\ storedLogs = logs

\* C18: a vocabulary entry without a concept is skipped by the selection: no
\* state is stored for it and it is in no selection
C18_MalformedSkipped ==
    /\ undefined \notin DOMAIN wordStates
    /\ \A sessionLength \in 1 .. MaxSession :
          \A draws \in DrawSeqs(vocabularyData, sessionLength) :
             \A i \in 1 .. Len(selectedConcepts(sessionLength, draws)) :
                selectedConcepts(sessionLength, draws)[i] # undefined

\* C19: a correct match of a pair with no wrong attempt on it in the round adds
\* the maximum of 4 points, however many attempts other pairs took
C19_FirstTryEarnsMaximum ==
    [][(/\ awaiting # <<>>
        /\ awaiting' = <<>>
        /\ awaiting[1].isMatch
        /\ awaiting[1].conceptId \notin mismatched) => score' = score + 4]_vars

(***************************************************************************)
(* C21: a response to an item in NEW graded FAIL leaves it in NEW with     *)
(* stability w0 (0.4); a response graded HARD, GOOD or EASY moves it to    *)
(* LEARNING with stability w0 + w1 * (quality - 1) (0.4, 1.0 or 1.6); no   *)
(* response moves a NEW item to REVIEW.  Read off the audit entries, whose *)
(* before-state and after-snapshot belong to one update.                   *)
(***************************************************************************)
C21_NewItemTransitions ==
    \A i \in 1 .. Len(logs) :
        LET e == logs[i]
        IN  (e.stateBefore.state = WordState_NEW /\ e.stateAfter # <<>>)
            => LET after == e.stateAfter[1]
               IN  /\ after.state # WordState_REVIEW
                   /\ e.responseQuality = FAIL
                        => /\ after.state = WordState_NEW
                           /\ after.stability = 400
                   /\ e.responseQuality # FAIL
                        => /\ after.state = WordState_LEARNING
                           /\ after.stability
                                = 400 + 600 * (e.responseQuality - 1)
                           /\ after.stability \in {400, 1000, 1600}

\* a NEW item graded FAIL, then, still NEW, graded EASY
C21_Witness ==
    \E i, j \in 1 .. Len(logs) :
        /\ logs[i].stateBefore.state = WordState_NEW
        /\ logs[i].responseQuality = FAIL
        /\ logs[i].stateAfter # <<>>
        /\ logs[i].stateAfter[1].state = WordState_NEW
        /\ logs[j].stateBefore.state = WordState_NEW
        /\ logs[j].responseQuality = EASY
        /\ logs[j].stateAfter # <<>>
        /\ logs[j].stateAfter[1].stability = 1600

(***************************************************************************)
(* C22: a response to an item in LEARNING or REVIEW graded FAIL leaves it  *)
(* in LEARNING; a response graded above FAIL leaves it in REVIEW when the  *)
(* stability after the update is above 1, and otherwise leaves its state   *)
(* as it was.                                                              *)
(***************************************************************************)
C22_KnownItemTransitions ==
    \A i \in 1 .. Len(logs) :
        LET e == logs[i]
        IN  (/\ e.stateBefore.state \in {WordState_LEARNING, WordState_REVIEW}
             /\ e.stateAfter # <<>>)
            => LET after == e.stateAfter[1]
               IN  after.state =
                     IF e.responseQuality = FAIL THEN WordState_LEARNING
                     ELSE IF after.stability > 1000 THEN WordState_REVIEW
                     ELSE e.stateBefore.state

\* a LEARNING item graduated to REVIEW, and a REVIEW item failed back to LEARNING
C22_Witness ==
    \E i, j \in 1 .. Len(logs) :
        /\ logs[i].stateBefore.state = WordState_LEARNING
        /\ logs[i].responseQuality # FAIL
        /\ logs[i].stateAfter # <<>>
        /\ logs[i].stateAfter[1].state = WordState_REVIEW
        /\ logs[j].stateBefore.state = WordState_REVIEW
        /\ logs[j].responseQuality = FAIL
        /\ logs[j].stateAfter # <<>>
        /\ logs[j].stateAfter[1].state = WordState_LEARNING
        /\ logs[j].stateAfter[1].stability > 1000

(***************************************************************************)
(* C23: in every reachable state every item in LEARNING has stability at   *)
(* most 1 and every item in REVIEW has stability above 1.                  *)
(***************************************************************************)
C23_StabilityMatchesState ==
    \A id \in DOMAIN wordStates :
        /\ wordStates[id].state = WordState_LEARNING
             => wordStates[id].stability <= 1000
        /\ wordStates[id].state = WordState_REVIEW
             => wordStates[id].stability > 1000

(***************************************************************************)
(* C24: after an update with grade q the stored difficulty equals the      *)
(* previous stored difficulty plus w6 * (q - 3), clamped to [0, 1]; an     *)
(* EASY response leaves the difficulty as it was.  Read off the audit      *)
(* entries.                                                                *)
(***************************************************************************)
C24_DifficultyUpdate ==
    \A i \in 1 .. Len(logs) :
        LET e == logs[i]
        IN  e.stateAfter # <<>>
            => LET previous == e.stateBefore.difficulty
                   moved == previous + 860 * (e.responseQuality - 3)
                   clamped == IF moved < 0 THEN 0
                              ELSE IF moved > 1000 THEN 1000 ELSE moved
               IN  /\ e.stateAfter[1].difficulty = clamped
                   /\ e.responseQuality = EASY
                        => e.stateAfter[1].difficulty = previous

\* a first response takes the difficulty from 0.3 to 0, and an EASY response follows
C24_Witness ==
    \E i, j \in 1 .. Len(logs) :
        /\ logs[i].stateBefore.difficulty = 300
        /\ logs[i].stateAfter # <<>>
        /\ logs[i].stateAfter[1].difficulty = 0
        /\ logs[j].responseQuality = EASY
        /\ logs[j].stateAfter # <<>>

(***************************************************************************)
(* C25: the retrievability of a reviewed item that the priority scorer    *)
(* uses at time now is recomputed from the time since the last review and  *)
(* the stability, so it is below 1 whenever now is later than the last     *)
(* review.  The priority the scorer stores for the item at time now is     *)
(* the priority of the item with the recomputed retrievability.            *)
(***************************************************************************)
C25_RetrievabilityRecomputed ==
    \A id \in DOMAIN wordStates :
        LET wordState == wordStates[id]
            recomputed == calculateRetrievability(wordState, now)
            atRead == [wordState EXCEPT !.retrievability = recomputed]
        IN  (wordState.repsTotal > 0 /\ now > wordState.lastReviewTime)
            => /\ recomputed < 1000
               /\ updateWordPriority(wordState, now).priority
                    = updateWordPriority(atRead, now).priority

(***************************************************************************)
(* C26: after every recorded response the item's next due time is the      *)
(* response time plus the stored interval and the interval is positive,    *)
(* so a reviewed item is never due before its last review.                 *)
(***************************************************************************)
C26_DueAfterReview ==
    \A id \in DOMAIN wordStates :
        LET wordState == wordStates[id]
        IN  wordState.repsTotal > 0
            => /\ wordState.interval > 0
               /\ wordState.nextDueTime = wordState.lastReviewTime + wordState.interval
               /\ wordState.nextDueTime >= wordState.lastReviewTime

\* an item reviewed a day after the start, in REVIEW, due more than a day later
C26_Witness ==
    \E id \in DOMAIN wordStates :
        /\ wordStates[id].repsTotal > 0
        /\ wordStates[id].state = WordState_REVIEW
        /\ wordStates[id].lastReviewTime > 1
        /\ wordStates[id].interval > MinutesPerDay
        /\ wordStates[id].nextDueTime = wordStates[id].lastReviewTime + wordStates[id].interval

(***************************************************************************)
(* C27: when an update leaves an item in NEW or LEARNING, its interval is  *)
(* learningSteps[min(repsCorrect, 1)] with repsCorrect counted before this *)
(* response is added, so the first correct response to a never-reviewed    *)
(* item schedules it 1 minute ahead.  Read off the audit entries: the      *)
(* before-state holds the count before the response, the after-snapshot    *)
(* the due time.                                                           *)
(***************************************************************************)
C27_StepIndexedBeforeCounting ==
    \A i \in 1 .. Len(logs) :
        LET e == logs[i]
        IN  (/\ e.stateAfter # <<>>
             /\ e.stateAfter[1].state \in {WordState_NEW, WordState_LEARNING})
            => e.stateAfter[1].nextDueTime
                 = e.timestamp + learningSteps[Min(e.stateBefore.repsCorrect, 1) + 1]

(***************************************************************************)
(* C28: when an item in REVIEW receives a response graded FAIL, the        *)
(* interval stored by that update is the first learning step, so the item  *)
(* is due exactly 1 minute after the response.                             *)
(***************************************************************************)
C28_FailOnReviewFirstStep ==
    \A i \in 1 .. Len(logs) :
        LET e == logs[i]
        IN  (/\ e.stateAfter # <<>>
             /\ e.stateBefore.state = WordState_REVIEW
             /\ e.responseQuality = FAIL)
            => e.stateAfter[1].nextDueTime = e.timestamp + learningSteps[1]

(***************************************************************************)
(* C29: in every reachable state every item's stored interval is at most   *)
(* the maximum interval of 36500 days, however large the stability has     *)
(* grown and whichever of the EASY (x 4) and HARD (x 0.5) modifiers was    *)
(* applied.                                                                *)
(***************************************************************************)
C29_IntervalCapped ==
    \A id \in DOMAIN wordStates :
        wordStates[id].interval <= 36500 * 24 * 60

\* a REVIEW item just graded HARD whose stability is above 36500 days (half
\* its uncapped interval is above the maximum) and whose interval is the maximum
C29_Witness ==
    \E id \in DOMAIN wordStates :
        /\ wordStates[id].state = WordState_REVIEW
        /\ wordStates[id].stability > 36500 * SCALE
        /\ wordStates[id].interval = 36500 * 24 * 60
        /\ Len(logs) > 0
        /\ logs[Len(logs)].wordId = id
        /\ logs[Len(logs)].responseQuality = HARD
        /\ logs[Len(logs)].stateAfter # <<>>
        /\ logs[Len(logs)].stateAfter[1].nextDueTime
             = logs[Len(logs)].timestamp + 36500 * 24 * 60

(***************************************************************************)
(* C30: for every item state and time now, updateWordPriority sets the     *)
(* priority to the sum of 10 + min(2 * overdueDays, 20) if now is at or    *)
(* after the due time and 0 otherwise, 5 * (1 - retrievability),           *)
(* 2 * difficulty, min(1.5 * lapseCount, 5), 3 if the item is NEW, and     *)
(* 0.2 * uncertainty; the overdue term is at most 30 and the lapse term at *)
(* most 5.  Checked for every stored item at the current time and at the   *)
(* time of its last response, in thousandths.                              *)
(***************************************************************************)
C30_PriorityFormula ==
    \A id \in DOMAIN wordStates :
        \A t \in {now, wordStates[id].lastReviewTime} :
            LET wordState == wordStates[id]
                overdueTerm ==
                    IF t >= wordState.nextDueTime
                    THEN 10000 + Min((2 * (t - wordState.nextDueTime) * 1000) \div 1440,
                                     20000)
                    ELSE 0
                lapseTerm == Min(1500 * wordState.lapseCount, 5000)
                others == 5 * (1000 - wordState.retrievability)
                            + 2 * wordState.difficulty
                            + (IF wordState.state = WordState_NEW THEN 3000 ELSE 0)
                            + (200 * wordState.uncertainty) \div 1000
            IN  /\ overdueTerm <= 30000
                /\ lapseTerm <= 5000
                /\ Abs(updateWordPriority(wordState, t).priority
                         - (overdueTerm + lapseTerm + others)) <= 1

\* an item failed four times and more than ten days overdue: both caps apply
C30_Witness ==
    \E id \in DOMAIN wordStates :
        /\ wordStates[id].lapseCount >= 4
        /\ now - wordStates[id].nextDueTime > 10 * MinutesPerDay
        /\ updateWordPriority(wordStates[id], now).priority >= 35000
        /\ updateWordPriority(wordStates[id], now).priority
             < 30000 + 1500 * wordStates[id].lapseCount

(***************************************************************************)
(* C31: after every recorded response the priority stored for the item is  *)
(* the score computed from the item's stored fields after the update, the  *)
(* uncertainty term using the uncertainty recomputed from the updated      *)
(* repsTotal and repsCorrect.                                              *)
(***************************************************************************)
C31_PriorityFromStoredFields ==
    \A id \in DOMAIN wordStates :
        LET wordState == wordStates[id]
        IN  wordState.repsTotal > 0
            => wordState.priority
                 = updateWordPriority(wordState, wordState.lastReviewTime).priority

(***************************************************************************)
(* C32: at every non-exploration draw of selectWordsForSession the chosen  *)
(* item has the highest priority among the candidates not chosen by an     *)
(* earlier draw, also after exploration draws in the same call.  Checked   *)
(* on the calls for two words out of a vocabulary of three in which every  *)
(* draw chose a word, so that the k-th word returned is the k-th draw's.   *)
(***************************************************************************)
selectionData == defaultData \o <<"Inflation">>

C32_ExploitTakesTop ==
    \A draws \in [1 .. 2 -> Draws] :
        LET r == selectWordsForSession(wordStates, selectionData, 2, draws, now)
            candidates == priorityList(r.wordStates, selectionData, now)
        IN  Len(r.selectedWords) = 2
            => \A k \in 1 .. 2 :
                 ~draws[k].explore
                 => \A j \in 1 .. Len(candidates) :
                      (\A m \in 1 .. k - 1 :
                           r.selectedWords[m].concept # candidates[j].concept)
                      => r.selectedWords[k].priority >= candidates[j].priority

(***************************************************************************)
(* C33: in every reachable state every stored item has                     *)
(* repsCorrect + lapseCount = repsTotal, streakCorrect <= repsCorrect and  *)
(* hintUsedCount <= repsTotal, and each recorded response raises repsTotal *)
(* by exactly 1 (read off the audit entries).                              *)
(***************************************************************************)
C33_CountersConsistent ==
    /\ \A id \in DOMAIN wordStates :
          LET wordState == wordStates[id]
          IN  /\ wordState.repsCorrect + wordState.lapseCount = wordState.repsTotal
              /\ wordState.streakCorrect <= wordState.repsCorrect
              /\ wordState.hintUsedCount <= wordState.repsTotal
    /\ \A i \in 1 .. Len(logs) :
          logs[i].stateAfter # <<>>
          => logs[i].stateAfter[1].repsTotal = logs[i].stateBefore.repsTotal + 1

\* an item with a lapse, a hinted response and a streak shorter than its
\* number of correct responses
C33_Witness ==
    \E id \in DOMAIN wordStates :
        /\ wordStates[id].repsTotal = 3
        /\ wordStates[id].lapseCount = 1
        /\ wordStates[id].repsCorrect = 2
        /\ wordStates[id].streakCorrect = 1
        /\ wordStates[id].hintUsedCount = 1
        /\ Len(logs) = 3

C35_CountsPartitionStore ==
    LET a == getAnalytics(wordStates)
    IN  /\ a.totalWords = Cardinality(DOMAIN wordStates)
        /\ a.newWords + a.learningWords + a.reviewWords + a.masteredWords
             = a.totalWords
        /\ (\A id \in DOMAIN wordStates : wordStates[id].repsTotal = 0)
             => a.averageAccuracy = 0

\* a mastered item next to a never-reviewed one
C35_Witness ==
    LET a == getAnalytics(wordStates)
    IN  /\ a.masteredWords = 1
        /\ a.newWords = 1
        /\ a.totalWords = 2
        /\ a.averageAccuracy = 1000

(***************************************************************************)
(* C36: after any sequence of recordResponse, startSession and resetData   *)
(* calls, the totalReviews reported by getAnalytics (the sum of repsTotal  *)
(* over the stored items) equals the number of entries in the audit log,   *)
(* and both count the responses recorded since the last reset.             *)
(***************************************************************************)
C36_TotalReviewsMatchLog ==
    /\ getAnalytics(wordStates).totalReviews = Len(logs)
    /\ Len(logs) = responsesSinceReset

\* one response recorded after a reset that forgot an earlier one, with a
\* second item stored by a session
C36_Witness ==
    /\ responsesEver = 2
    /\ responsesSinceReset = 1
    /\ getAnalytics(wordStates).totalReviews = 1
    /\ Len(logs) = 1
    /\ Cardinality(DOMAIN wordStates) = 2

(***************************************************************************)
(* C37: between resets the lifecycle is one-way out of NEW: an item that   *)
(* has left NEW never returns to NEW, an item is in REVIEW only after      *)
(* having been in LEARNING, and an item is in NEW exactly when none of its *)
(* responses so far was graded above FAIL.  A step that is not a reset     *)
(* keeps a stored item out of NEW once it is out and moves it to REVIEW    *)
(* only from LEARNING or REVIEW; the audit log, which holds the responses  *)
(* since the last reset, tells which items are in NEW.                     *)
(***************************************************************************)
C37_OneWayOutOfNew ==
    [][/\ ResetFSRSData
          \/ \A id \in DOMAIN wordStates :
                /\ id \in DOMAIN wordStates'
                /\ wordStates[id].state # WordState_NEW
                     => wordStates'[id].state # WordState_NEW
                /\ wordStates'[id].state = WordState_REVIEW
                     => wordStates[id].state \in {WordState_LEARNING, WordState_REVIEW}
       /\ \A id \in DOMAIN wordStates' :
             wordStates'[id].state = WordState_NEW
               <=> \A i \in 1 .. Len(logs') :
                      logs'[i].wordId = id => logs'[i].responseQuality = FAIL]_vars

\* an item that stayed in NEW on a FAIL, left NEW on a later response and
\* stayed out of NEW on the FAIL after that
C37_Witness ==
    /\ Len(logs) = 3
    /\ \A i \in 1 .. 3 : logs[i].wordId = logs[1].wordId /\ logs[i].stateAfter # <<>>
    /\ logs[1].responseQuality = FAIL
    /\ logs[1].stateAfter[1].state = WordState_NEW
    /\ logs[2].responseQuality # FAIL
    /\ logs[2].stateAfter[1].state = WordState_LEARNING
    /\ logs[3].responseQuality = FAIL
    /\ logs[1].wordId \in DOMAIN wordStates
    /\ wordStates[logs[1].wordId].state = WordState_LEARNING

(***************************************************************************)
(* C38: under every interleaving of clicks with the 300 ms match-check     *)
(* timer and the 1000 ms cleanup timer, each pairing the player makes is   *)
(* evaluated and recorded through recordResponse exactly once.  Each       *)
(* pairing sets one check timer and each timer fires once, so: whenever a  *)
(* check timer fires, the check records a response, and the pairing it     *)
(* records is the pairing that set the timer.                              *)
(***************************************************************************)
C38_EachPairingRecordedOnce ==
    [][\A i \in 1 .. Len(timers) :
          (/\ awaiting = <<>>
           /\ timers[i].kind = "checkMatch"
           /\ canFire(timers, i)
           /\ timers' = withoutTimer(timers, i))
          => /\ Len(logs') = Len(logs) + 1
             /\ awaiting' # <<>>
             /\ timers[i].elements
                  = {element("concept", awaiting'[1].conceptId),
                     element("definition", awaiting'[1].definitionId)}]_vars

(***************************************************************************)
(* C39: for an item in LEARNING or REVIEW a response graded FAIL never     *)
(* leaves the stability higher than it was before the response, and a      *)
(* response graded GOOD or EASY never leaves it lower.  Read off the audit *)
(* entries.                                                                *)
(***************************************************************************)
C39_StabilityFollowsGrade ==
    \A i \in 1 .. Len(logs) :
        LET e == logs[i]
        IN  (/\ e.stateAfter # <<>>
             /\ e.stateBefore.state \in {WordState_LEARNING, WordState_REVIEW})
            => /\ e.responseQuality = FAIL
                    => e.stateAfter[1].stability <= e.stateBefore.stability
               /\ e.responseQuality \in {GOOD, EASY}
                    => e.stateAfter[1].stability >= e.stateBefore.stability

(***************************************************************************)
(* C40: an item whose every response is correct, unhinted and graded GOOD  *)
(* eventually reaches the REVIEW state after finitely many responses.      *)
(* The lifecycle state, stability and difficulty after a GOOD response are *)
(* determined by their values before it, so such an item reaches REVIEW    *)
(* only if no GOOD response to it outside REVIEW leaves all three as they  *)
(* were: from there every further GOOD response repeats.                   *)
(***************************************************************************)
C40_GoodResponsesProgress ==
    \A i \in 1 .. Len(logs) :
        LET e == logs[i]
        IN  (/\ e.stateAfter # <<>>
             /\ e.responseQuality = GOOD
             /\ \A j \in 1 .. i : logs[j].wordId = e.wordId
                                    => logs[j].responseQuality = GOOD
             /\ e.stateAfter[1].state # WordState_REVIEW)
            => ~ /\ e.stateAfter[1].state = e.stateBefore.state
                 /\ e.stateAfter[1].stability = e.stateBefore.stability
                 /\ e.stateAfter[1].difficulty = e.stateBefore.difficulty

====
